---- MODULE Spec2Model ----
(***************************************************************************)
(* ChronosDB: the append-only segment, the primary store (ChronosDb), the  *)
(* HNSW vector index, the bloom filter, the Raft state machine apply path  *)
(* and the client server handlers, as state machines.                      *)
(*                                                                         *)
(* A file is a sequence of cells.  A frame written by Segment::append is   *)
(* one header cell (the u32 length prefix) followed by the cells of the    *)
(* serialized record.  An open Segment is a handle on an inode with ONE    *)
(* file position: File::try_clone duplicates the descriptor, and the       *)
(* duplicate shares the position of the original, so the seek and the      *)
(* reads of Segment::read move the position Segment::append writes at.     *)
(***************************************************************************)
EXTENDS Integers, Sequences, FiniteSets, TLC

VARIABLES
    disk,            \* inode -> file content (a sequence of cells)
    dir,             \* path -> inode (NoInode: no such file)
    active_segment,  \* ChronosDb.active_segment: the open Segment
    index,           \* ChronosDb.index: key -> offsets, in append order
    bloom_filter,    \* ChronosDb.bloom_filter: the set of bits that are set
    vector_index,    \* ChronosDb.vector_index: the HNSW graph
    current_snapshot,\* the bytes of the last snapshot() (held by the caller)
    inserted,        \* history: key -> records inserted, while never deleted/restored/compacted
    disturbed,       \* history: keys deleted, or all keys once restore/compact ran
    tomb,            \* history: keys whose last write was delete(key)
    snapFresh,       \* history: the last operation was snapshot()
    log,             \* ChronosStore.log: the Raft log entries, by index
    acked,           \* history: key -> payload of the write last answered "OK"
    ncompact,        \* history: the number of compact() calls so far
    appended,        \* history: the <<offset, record>> pairs Segment::append returned
    bloomed,         \* history: the keys BloomFilter::insert was called with
    pc,              \* the step the operation in progress has reached
    conn,            \* one client connection: open or dropped, and the replies sent
    reader,          \* a read in progress: the offset it took from the index
    raft,            \* ChronosStore: snapshot, last purged log id, vote, membership
    locks            \* HnswIndex: per thread, the call it is in and the locks it holds

vars == <<disk, dir, active_segment, index, bloom_filter, vector_index,
          current_snapshot, log, inserted, disturbed, tomb, snapFresh, acked, ncompact,
          appended, bloomed, pc, conn, reader, raft, locks>>

\* what the operations of the store taken as a whole leave alone
auxvars == <<appended, bloomed, pc, conn, reader, raft, locks>>

dbvars == <<disk, dir, active_segment, index, bloom_filter, vector_index>>

----------------------------------------------------------------------------
(* Bounds of the model *)

NumIds == 2          \* keys are 1..NumIds
MaxTs == 2           \* record timestamps are 1..MaxTs
U64_MAX == 3         \* the model's largest timestamp (u64::MAX, TimeStamp.end sentinel)
MaxPayloadLen == 1   \* payloads are byte strings of length 0..MaxPayloadLen
MaxOffset == 6       \* appends stop once current_offset would pass this
MaxLevel == 1        \* select_level() samples 0..MaxLevel
MaxK == 2            \* search limit and compaction history_limit are 0..MaxK
MaxCompactions == 2  \* compact() runs at most this often
MaxLog == 3          \* the Raft log holds at most this many entries
MaxM == 2            \* HnswIndex::new(m_max, _) is built with m_max in 1..MaxM
WordBits == 6        \* the model's width of the bloom filter's u64 arithmetic
NumInodes == 3       \* files that exist at once: the old segment, the new one, a spare

Ids == 1..NumIds
Times == 1..MaxTs
QueryTimes == 0..U64_MAX
Payloads == UNION {[1..n -> {1}] : n \in 0..MaxPayloadLen}
Vectors == {<<1, 0>>, <<0, 1>>}
Levels == 0..MaxLevel

Max(a, b) == IF a >= b THEN a ELSE b
Min(a, b) == IF a <= b THEN a ELSE b
Last(s) == s[Len(s)]

----------------------------------------------------------------------------
(* model.rs: Record *)

RecordNew(key, vector, payload, ts) ==
    [key |-> key, vector |-> vector, payload |-> payload,
     start |-> ts, end |-> U64_MAX, tx_time |-> ts]

Records == {RecordNew(k, v, p, t) : k \in Ids, v \in Vectors, p \in Payloads, t \in Times}

----------------------------------------------------------------------------
(* storage.rs: Segment *)

NoInode == 0          \* what a path with no file maps to
Inodes == 1..NumInodes
WalPath == "wal"
CompactedPath == "compacted"
Paths == {WalPath, CompactedPath}

\* Path::with_extension("compacted"): the same for the canonical path and
\* for a path that already carries the extension.
WithExtensionCompacted(p) == CompactedPath

HdrCell(n) == [k |-> "hdr", n |-> n]
BodyCell(r, i) == [k |-> "body", r |-> r, i |-> i]
ZeroCell == [k |-> "zero"]

\* rkyv::to_bytes: the serialized record; its size grows with the payload.
BodyLen(r) == 1 + Len(r.payload)
Serialize(r) == [i \in 1..BodyLen(r) |-> BodyCell(r, i)]
IsSerialized(bytes) ==
    /\ Len(bytes) >= 1
    /\ bytes[1].k = "body"
    /\ bytes = Serialize(bytes[1].r)

Frame(r) == <<HdrCell(BodyLen(r))>> \o Serialize(r)

\* write_all at file position pos: overwrites what is there, extends the
\* file, and leaves a hole of zeros when pos is past the end.
WriteAt(data, pos, cells) ==
    LET newLen == Max(Len(data), pos + Len(cells))
    IN  [i \in 1..newLen |->
            IF i > pos /\ i <= pos + Len(cells) THEN cells[i - pos]
            ELSE IF i <= Len(data) THEN data[i]
            ELSE ZeroCell]

\* Segment::new: open read+write+create (no truncate, no append): the file
\* position starts at 0 and current_offset at the file's length.
SegmentNew(path, ino, data) ==
    [file_path |-> path, ino |-> ino, pos |-> 0, current_offset |-> Len(data)]

\* Segment::append: the frame goes to the file position; the offset
\* returned is current_offset.
SegmentAppend(s, data, r) ==
    [seg |-> [s EXCEPT !.pos = s.pos + Len(Frame(r)),
                       !.current_offset = s.current_offset + Len(Frame(r))],
     data |-> WriteAt(data, s.pos, Frame(r)),
     offset |-> s.current_offset]

\* Segment::read: the possible results of read(o) with the file position
\* each leaves behind.  res is <<r>> for Ok(r) and <<>> for Err.  Bytes that
\* are no frame go through an unchecked archived_root: any record may come
\* back (as a length prefix they are any length).
SegmentRead(data, o) ==
    IF o >= Len(data)
    THEN {[res |-> <<>>, pos |-> o]}
    ELSE LET c == data[o + 1] IN
         IF c.k = "hdr"
         THEN IF o + 1 + c.n > Len(data)
              THEN {[res |-> <<>>, pos |-> Len(data)]}
              ELSE LET bytes == SubSeq(data, o + 2, o + 1 + c.n) IN
                   IF IsSerialized(bytes)
                   THEN {[res |-> <<bytes[1].r>>, pos |-> o + 1 + c.n]}
                   ELSE {[res |-> <<r>>, pos |-> o + 1 + c.n] : r \in Records}
         ELSE {[res |-> <<>>, pos |-> Len(data)]}
              \cup {[res |-> <<r>>, pos |-> p] : r \in Records, p \in (o + 1)..Len(data)}

----------------------------------------------------------------------------
(* filter.rs: BloomFilter *)

Wrap == 2 ^ WordBits
BLOOM_M == 7         \* the model's bits.len() (the code's is m.ceil() for 1_000_000 items)
BLOOM_K == 3         \* the model's num_hashes

\* 0x9E3779B97F4A7C15 is 2^64 / 1.618...; the same fraction of the model's width
GOLDEN == (Wrap * 618) \div 1000

\* seahash::hash of the key's little-endian bytes
SeaHash(key) == (key * 29 + 5) % Wrap

get_hash_pair(key) ==
    LET h1 == SeaHash(key) IN <<h1, (h1 + GOLDEN) % Wrap>>

BloomIdx(key, i) ==
    LET hp == get_hash_pair(key)
    IN  ((hp[1] + ((i * hp[2]) % Wrap)) % Wrap) % BLOOM_M

\* a contains that adds without wrapping
BloomContainsNoWrap(bits, key) ==
    LET hp == get_hash_pair(key)
    IN  \A i \in 0..(BLOOM_K - 1) : ((hp[1] + i * hp[2]) % BLOOM_M) \in bits

BloomNew == {}
BloomInsert(bits, key) == bits \cup {BloomIdx(key, i) : i \in 0..(BLOOM_K - 1)}
BloomContains(bits, key) == \A i \in 0..(BLOOM_K - 1) : BloomIdx(key, i) \in bits

----------------------------------------------------------------------------
(* vector.rs: Metric::Cosine.  The model's vectors are axis vectors, whose  *)
(* norms and quotient are whole numbers, so the f32 result is exact.        *)

Dot(a, b) == a[1] * b[1] + a[2] * b[2]
Sqrt(n) == CHOOSE s \in 0..n : s * s = n

distance(a, b) ==
    LET dot == Dot(a, b)
        norm_a == Dot(a, a)
        norm_b == Dot(b, b)
    IN  IF norm_a = 0 \/ norm_b = 0 THEN 1
        ELSE 1 - (dot \div (Sqrt(norm_a) * Sqrt(norm_b)))

----------------------------------------------------------------------------
(* index.rs: HnswIndex.  nodes maps an id to its vector and its adjacency   *)
(* layers (layer lc of the code is connections[lc + 1] here).  entry_point  *)
(* is <<>> for None and <<id>> for Some(id).  poisoned: an insert panicked  *)
(* while holding the three write locks, so every later lock().unwrap()      *)
(* panics.                                                                  *)

M_MAX == 16          \* HnswIndex::new(16, 100) in ChronosDb::new

HnswNew(m_max) ==
    [nodes |-> <<>>, entry_point |-> <<>>, max_layer |-> 0, m_max |-> m_max,
     poisoned |-> FALSE]

MapPut(f, k, v) == [x \in (DOMAIN f) \cup {k} |-> IF x = k THEN v ELSE f[x]]
MapRemove(f, k) == [x \in (DOMAIN f) \ {k} |-> f[x]]

\* HnswIndex::clear
HnswClear(h) ==
    [h EXCEPT !.nodes = <<>>, !.entry_point = <<>>, !.max_layer = 0]

\* HnswIndex::remove: the node goes, the links to it stay
HnswRemove(h, id) == [h EXCEPT !.nodes = MapRemove(h.nodes, id)]

\* One pass of "for neighbor in candidates": the nearest existing neighbor
\* that beats min_dist becomes the current node.
RECURSIVE GreedyScan(_, _, _, _, _)
GreedyScan(nodes, vector, cands, i, st) ==
    IF i > Len(cands) THEN st
    ELSE IF cands[i] \in DOMAIN nodes
              /\ distance(vector, nodes[cands[i]].vector) < st.min_dist
         THEN GreedyScan(nodes, vector, cands, i + 1,
                  [curr |-> cands[i],
                   min_dist |-> distance(vector, nodes[cands[i]].vector),
                   changed |-> TRUE])
         ELSE GreedyScan(nodes, vector, cands, i + 1, st)

\* insert's "while changed" on layer lc: nodes_guard[&curr_obj].connections[lc]
\* is an unchecked index, which panics when the current node has no layer lc.
RECURSIVE InsertGreedy(_, _, _, _, _)
InsertGreedy(nodes, vector, lc, curr, min_dist) ==
    IF lc >= Len(nodes[curr].connections)
    THEN [curr |-> curr, panic |-> TRUE]
    ELSE LET st == GreedyScan(nodes, vector, nodes[curr].connections[lc + 1], 1,
                       [curr |-> curr, min_dist |-> min_dist, changed |-> FALSE])
         IN  IF st.changed
             THEN InsertGreedy(nodes, vector, lc, st.curr, st.min_dist)
             ELSE [curr |-> curr, panic |-> FALSE]

\* insert's traversal of the layers max_layer down to layers + 1
RECURSIVE InsertZoom(_, _, _, _, _)
InsertZoom(nodes, vector, lc, lowest, curr) ==
    IF lc < lowest THEN [curr |-> curr, panic |-> FALSE]
    ELSE IF curr \notin DOMAIN nodes THEN [curr |-> curr, panic |-> FALSE]
    ELSE IF lc >= Len(nodes[curr].connections) THEN [curr |-> curr, panic |-> FALSE]
    ELSE LET g == InsertGreedy(nodes, vector, lc, curr,
                      distance(vector, nodes[curr].vector))
         IN  IF g.panic THEN g
             ELSE InsertZoom(nodes, vector, lc - 1, lowest, g.curr)

\* the push without the pop that caps the layer
PushUncapped(list, id, m_max) == Append(list, id)

\* peer.connections[lc].push(id), then pop() when the layer is over m_max
PushCapped(list, id, m_max) ==
    IF Len(list) + 1 > m_max THEN list ELSE Append(list, id)

\* HnswIndex::insert with the level select_level() sampled
HnswInsert(h, id, vector, layers) ==
    IF h.entry_point = <<>>
    THEN [h EXCEPT !.entry_point = <<id>>,
                   !.max_layer = layers,
                   !.nodes = MapPut(h.nodes, id,
                       [vector |-> vector,
                        connections |-> [l \in 1..(layers + 1) |-> <<>>]])]
    ELSE LET z == InsertZoom(h.nodes, vector, h.max_layer, layers + 1,
                      h.entry_point[1])
             curr_entry == z.curr
             top == Min(layers, h.max_layer)
             node == [vector |-> vector,
                      connections |-> [l \in 1..(layers + 1) |->
                          IF l - 1 <= top THEN <<curr_entry>> ELSE <<>>]]
             peered ==
                 IF curr_entry \in DOMAIN h.nodes
                 THEN [h.nodes EXCEPT ![curr_entry].connections =
                          [l \in 1..Len(@) |->
                              IF l - 1 <= top
                              THEN PushCapped(@[l], id, h.m_max)
                              ELSE @[l]]]
                 ELSE h.nodes
         IN  IF z.panic THEN [h EXCEPT !.poisoned = TRUE]
             ELSE [h EXCEPT !.nodes = MapPut(peered, id, node),
                            !.max_layer = IF layers > h.max_layer THEN layers ELSE @,
                            !.entry_point = IF layers > h.max_layer THEN <<id>> ELSE @]

\* search's "while changed" on layer lc (checked indexing)
RECURSIVE SearchGreedy(_, _, _, _, _)
SearchGreedy(nodes, query, lc, curr, min_dist) ==
    IF lc >= Len(nodes[curr].connections) THEN curr
    ELSE LET st == GreedyScan(nodes, query, nodes[curr].connections[lc + 1], 1,
                       [curr |-> curr, min_dist |-> min_dist, changed |-> FALSE])
         IN  IF st.changed
             THEN SearchGreedy(nodes, query, lc, st.curr, st.min_dist)
             ELSE curr

\* search's zoom through the layers max_layer down to 1
RECURSIVE SearchZoom(_, _, _, _)
SearchZoom(nodes, query, lc, curr) ==
    IF lc < 1 THEN curr
    ELSE IF lc >= Len(nodes[curr].connections)
         THEN SearchZoom(nodes, query, lc - 1, curr)
         ELSE SearchZoom(nodes, query, lc - 1,
                  SearchGreedy(nodes, query, lc, curr,
                      distance(query, nodes[curr].vector)))

\* The layer-0 expansion: everything reached from the entry over
\* connections[0] through nodes that exist.
RECURSIVE Expand(_, _)
Expand(nodes, seen) ==
    LET more == {v \in DOMAIN nodes :
                    \E u \in seen : \E i \in 1..Len(nodes[u].connections[1]) :
                        nodes[u].connections[1][i] = v}
    IN  IF more \subseteq seen THEN seen ELSE Expand(nodes, seen \cup more)

Visited(h, query) ==
    IF h.entry_point = <<>> \/ h.entry_point[1] \notin DOMAIN h.nodes THEN {}
    ELSE Expand(h.nodes, {SearchZoom(h.nodes, query, h.max_layer, h.entry_point[1])})

\* "for v in &node.connections[0]": a neighbor not yet visited is marked, and
\* pushed on candidates and results when nodes.get(v) finds it.
RECURSIVE ScanLayer0(_, _, _, _)
ScanLayer0(nodes, conns, i, st) ==
    IF i > Len(conns) THEN st
    ELSE LET v == conns[i] IN
         IF v \in st.visited THEN ScanLayer0(nodes, conns, i + 1, st)
         ELSE ScanLayer0(nodes, conns, i + 1,
                  [visited |-> st.visited \cup {v},
                   candidates |-> IF v \in DOMAIN nodes
                                  THEN st.candidates \cup {v} ELSE st.candidates,
                   results |-> IF v \in DOMAIN nodes
                               THEN Append(st.results, v) ELSE st.results])

\* "while let Some(cand) = candidates.pop()": the ids pushed on results, in
\* the order of the pushes.  The nearest candidate is popped; which of two
\* equally near ones comes first changes the order of the pushes only.
RECURSIVE DrainCandidates(_, _, _)
DrainCandidates(nodes, query, st) ==
    IF st.candidates = {} THEN st.results
    ELSE LET u == CHOOSE c \in st.candidates :
                      \A o \in st.candidates :
                          distance(query, nodes[c].vector)
                              <= distance(query, nodes[o].vector)
             st1 == [st EXCEPT !.candidates = @ \ {u}]
         IN  IF u \in DOMAIN nodes /\ Len(nodes[u].connections) > 0
             THEN DrainCandidates(nodes, query,
                      ScanLayer0(nodes, nodes[u].connections[1], 1, st1))
             ELSE DrainCandidates(nodes, query, st1)

\* a search that pushes the entry on results twice
Layer0ResultsEntryTwice(h, query) ==
    IF h.entry_point = <<>> \/ h.entry_point[1] \notin DOMAIN h.nodes THEN <<>>
    ELSE LET e == SearchZoom(h.nodes, query, h.max_layer, h.entry_point[1])
         IN  DrainCandidates(h.nodes, query,
                 [visited |-> {e}, candidates |-> {e}, results |-> <<e, e>>])

\* what search has pushed on results when the candidates run out
Layer0Results(h, query) ==
    IF h.entry_point = <<>> \/ h.entry_point[1] \notin DOMAIN h.nodes THEN <<>>
    ELSE LET e == SearchZoom(h.nodes, query, h.max_layer, h.entry_point[1])
         IN  DrainCandidates(h.nodes, query,
                 [visited |-> {e}, candidates |-> {e}, results |-> <<e>>])

\* The orders in which the results heap can be drained: nearest first, the
\* order among equal distances being the heap's own.
AscendingOrders(h, query) ==
    LET res == Layer0Results(h, query)
        n == Len(res)
    IN  {[i \in 1..n |-> res[p[i]]] :
            p \in {q \in [1..n -> 1..n] :
                /\ \A i, j \in 1..n : i # j => q[i] # q[j]
                /\ \A i \in 1..(n - 1) :
                      distance(query, h.nodes[res[q[i]]].vector)
                          <= distance(query, h.nodes[res[q[i + 1]]].vector)}}

Reverse(s) == [i \in 1..Len(s) |-> s[Len(s) + 1 - i]]
Take(s, k) == SubSeq(s, 1, Min(k, Len(s)))

\* final_res drained from the heap, reversed, then cut to k
FinalRes(asc, k) == Take(Reverse(asc), k)

\* HnswIndex::search: the possible results, each a sequence of <<id, distance>>
HnswSearch(h, query, k) ==
    {[i \in 1..Len(FinalRes(asc, k)) |->
         <<FinalRes(asc, k)[i], distance(query, h.nodes[FinalRes(asc, k)[i]].vector)>>] :
       asc \in AscendingOrders(h, query)}

\* A call of search: it panics on a poisoned lock (read().unwrap()).
VectorSearch(h, query, k) ==
    IF h.poisoned THEN {[panic |-> TRUE, found |-> <<>>]}
    ELSE {[panic |-> FALSE, found |-> f] : f \in HnswSearch(h, query, k)}

----------------------------------------------------------------------------
(* lib.rs: ChronosDb.  The operations are written over a record d of the    *)
(* store's fields (and the file system it writes to), so that restore, the  *)
(* apply path and the server can call them.                                 *)

None == <<>>
Some(x) == <<x>>

CurDb ==
    [disk |-> disk, dir |-> dir, seg |-> active_segment, index |-> index,
     bloom |-> bloom_filter, hnsw |-> vector_index]

\* An inode that no path and no open handle refers to is gone.
Collect(d) ==
    [d EXCEPT !.disk = [i \in Inodes |->
        IF i = d.seg.ino \/ \E p \in Paths : d.dir[p] = i THEN d.disk[i] ELSE <<>>]]

SetDb(d) ==
    /\ disk' = Collect(d).disk
    /\ dir' = d.dir
    /\ active_segment' = d.seg
    /\ index' = d.index
    /\ bloom_filter' = d.bloom
    /\ vector_index' = d.hnsw

SegData(d) == d.disk[d.seg.ino]

Offsets(d, id) == IF id \in DOMAIN d.index THEN d.index[id] ELSE <<>>

\* ChronosDb::insert: segment, then bloom, then index, then the graph.
\* panic: vector_index.insert panicked (after the first three steps).
DbInsert(d, record, layers) ==
    LET a == SegmentAppend(d.seg, SegData(d), record)
        d1 == [d EXCEPT !.disk[d.seg.ino] = a.data,
                        !.seg = a.seg,
                        !.bloom = BloomInsert(d.bloom, record.key),
                        !.index = MapPut(d.index, record.key,
                                      Append(Offsets(d, record.key), a.offset))]
        h == HnswInsert(d.hnsw, record.key, record.vector, layers)
    IN  IF d.hnsw.poisoned THEN [db |-> d1, panic |-> TRUE]
        ELSE [db |-> [d1 EXCEPT !.hnsw = h], panic |-> h.poisoned]

\* ChronosDb::delete
DbDelete(d, id) ==
    LET d1 == [d EXCEPT !.index = MapRemove(d.index, id)]
    IN  IF d.hnsw.poisoned THEN [db |-> d1, panic |-> TRUE]
        ELSE [db |-> [d1 EXCEPT !.hnsw = HnswRemove(d.hnsw, id)], panic |-> FALSE]

\* ChronosDb::read_record
read_record(d, offset) == SegmentRead(SegData(d), offset)

\* ChronosDb::get_latest: the possible results, each with the file
\* position the call leaves.
get_latest(d, id) ==
    IF ~BloomContains(d.bloom, id) THEN {[res |-> None, pos |-> d.seg.pos]}
    ELSE IF Offsets(d, id) = <<>> THEN {[res |-> None, pos |-> d.seg.pos]}
    ELSE read_record(d, Last(Offsets(d, id)))

\* get_as_of's loop over the offsets, newest first
RECURSIVE AsOfScan(_, _, _, _, _)
AsOfScan(d, offsets, i, target_time, pos) ==
    IF i < 1 THEN {[res |-> None, pos |-> pos]}
    ELSE UNION {
        IF o.res # None /\ o.res[1].start <= target_time /\ target_time < o.res[1].end
        THEN {o}
        ELSE AsOfScan(d, offsets, i - 1, target_time, o.pos)
        : o \in read_record(d, offsets[i])}

\* ChronosDb::get_as_of
get_as_of(d, id, target_time) ==
    IF ~BloomContains(d.bloom, id) THEN {[res |-> None, pos |-> d.seg.pos]}
    ELSE IF id \notin DOMAIN d.index THEN {[res |-> None, pos |-> d.seg.pos]}
    ELSE AsOfScan(d, d.index[id], Len(d.index[id]), target_time, d.seg.pos)

\* get_history's loop over the offsets, oldest first; res is the Vec
RECURSIVE HistoryScan(_, _, _, _, _)
HistoryScan(d, offsets, i, acc, pos) ==
    IF i > Len(offsets) THEN {[res |-> acc, pos |-> pos]}
    ELSE UNION {
        HistoryScan(d, offsets, i + 1,
            IF o.res # None THEN Append(acc, o.res[1]) ELSE acc, o.pos)
        : o \in read_record(d, offsets[i])}

\* ChronosDb::get_history
get_history(d, id) ==
    IF ~BloomContains(d.bloom, id) THEN {[res |-> <<>>, pos |-> d.seg.pos]}
    ELSE IF id \notin DOMAIN d.index THEN {[res |-> <<>>, pos |-> d.seg.pos]}
    ELSE HistoryScan(d, d.index[id], 1, <<>>, d.seg.pos)

\* The orders a HashMap can be iterated in
Orders(S) ==
    {s \in [1..Cardinality(S) -> S] : \A i, j \in 1..Cardinality(S) : i # j => s[i] # s[j]}

\* snapshot's loop over the index, reading the last offset of each key
RECURSIVE SnapshotScan(_, _, _, _, _)
SnapshotScan(d, keys, i, acc, pos) ==
    IF i > Len(keys) THEN {[res |-> acc, pos |-> pos]}
    ELSE IF d.index[keys[i]] = <<>> THEN SnapshotScan(d, keys, i + 1, acc, pos)
    ELSE UNION {
        SnapshotScan(d, keys, i + 1,
            IF o.res # None THEN Append(acc, o.res[1]) ELSE acc, o.pos)
        : o \in read_record(d, Last(d.index[keys[i]]))}

\* rkyv serialization of a Vec<Record>, and archived_root + deserialize
RECURSIVE SerializeVec(_)
SerializeVec(records) ==
    IF records = <<>> THEN <<>>
    ELSE Serialize(records[1]) \o SerializeVec(Tail(records))

RECURSIVE DeserializeVec(_)
DeserializeVec(bytes) ==
    IF bytes = <<>> THEN <<>>
    ELSE <<bytes[1].r>> \o DeserializeVec(SubSeq(bytes, BodyLen(bytes[1].r) + 1, Len(bytes)))

\* ChronosDb::snapshot: res is the bytes
snapshot(d) ==
    UNION {
        {[res |-> SerializeVec(o.res), pos |-> o.pos]
            : o \in SnapshotScan(d, keys, 1, <<>>, d.seg.pos)}
        : keys \in Orders(DOMAIN d.index)}

\* restore's loop of insert() calls; levels[i] is the level sampled for
\* the i-th insert
RECURSIVE RestoreInserts(_, _, _, _)
RestoreInserts(d, records, levels, i) ==
    IF i > Len(records) THEN [db |-> d, panic |-> FALSE]
    ELSE LET r == DbInsert(d, records[i], levels[i])
         IN  IF r.panic THEN r
             ELSE RestoreInserts(r.db, records, levels, i + 1)

\* ChronosDb::restore
DbRestore(d, snapshot_data, levels) ==
    LET records == DeserializeVec(snapshot_data)
        d1 == [d EXCEPT !.index = <<>>, !.bloom = BloomNew]
    IN  IF d.hnsw.poisoned THEN [db |-> d1, panic |-> TRUE]
        ELSE RestoreInserts([d1 EXCEPT !.hnsw = HnswClear(d.hnsw)], records, levels, 1)

----------------------------------------------------------------------------
(* lib.rs: ChronosDb::compact.  fail names the file system call that fails  *)
(* in this run ("none": none does); failAt is the number of the append      *)
(* that fails when fail = "append".                                         *)

FailPoints == {"none", "create", "append", "remove", "rename", "reopen"}

FreeInode(d) ==
    CHOOSE i \in Inodes :
        /\ i # d.seg.ino /\ \A p \in Paths : d.dir[p] # i
        /\ \A j \in Inodes :
              (j # d.seg.ino /\ \A p \in Paths : d.dir[p] # j) => i <= j

\* "for &old_offset in offsets_to_keep": read from the old segment, append
\* to the new one; a failed read is skipped, a failed append returns Err.
RECURSIVE CopyOffsets(_, _, _, _, _, _)
CopyOffsets(st, oldino, offsets, i, acc, failAt) ==
    IF i > Len(offsets) THEN {[st |-> st, acc |-> acc]}
    ELSE UNION {
        IF o.res = None
        THEN CopyOffsets([st EXCEPT !.rpos = o.pos], oldino, offsets, i + 1, acc, failAt)
        ELSE IF st.appends + 1 = failAt
        THEN {[st |-> [st EXCEPT !.rpos = o.pos, !.failed = TRUE], acc |-> acc]}
        ELSE LET a == SegmentAppend(st.nseg, st.disk[st.nseg.ino], o.res[1])
             IN  CopyOffsets([st EXCEPT !.rpos = o.pos,
                                        !.disk[st.nseg.ino] = a.data,
                                        !.nseg = a.seg,
                                        !.appends = @ + 1],
                             oldino, offsets, i + 1, Append(acc, a.offset), failAt)
        : o \in SegmentRead(st.disk[oldino], offsets[i])}

\* "for (key, offsets) in index_lock.iter()" with the retention policy
RECURSIVE CopyKeys(_, _, _, _, _, _)
CopyKeys(st, d, keys, j, history_limit, failAt) ==
    IF j > Len(keys) THEN {st}
    ELSE LET offsets == d.index[keys[j]]
             start_idx == IF Len(offsets) > history_limit
                          THEN Len(offsets) - history_limit ELSE 0
             offsets_to_keep == SubSeq(offsets, start_idx + 1, Len(offsets))
         IN  UNION {
                 IF c.st.failed THEN {c.st}
                 ELSE CopyKeys([c.st EXCEPT !.newidx = MapPut(@, keys[j], c.acc)],
                               d, keys, j + 1, history_limit, failAt)
                 : c \in CopyOffsets(st, d.seg.ino, offsets_to_keep, 1, <<>>, failAt)}

\* Steps 4 and 5: the swap, remove_file, rename and the reopen
CompactFinish(d0, st, fail) ==
    LET old_path == d0.seg.file_path
        new_path == WithExtensionCompacted(old_path)
        swapped == [d0 EXCEPT !.disk = st.disk, !.index = st.newidx, !.seg = st.nseg]
        removed == [swapped EXCEPT !.dir[old_path] = NoInode]
        renamed == [removed EXCEPT !.dir[old_path] = removed.dir[new_path],
                                   !.dir[new_path] = NoInode]
    IN  IF st.failed
        THEN [db |-> [d0 EXCEPT !.disk = st.disk, !.seg.pos = st.rpos], ok |-> FALSE]
        ELSE IF fail = "remove" \/ swapped.dir[old_path] = NoInode
        THEN [db |-> swapped, ok |-> TRUE]
        ELSE IF fail = "rename" \/ removed.dir[new_path] = NoInode
        THEN [db |-> removed, ok |-> FALSE]
        ELSE IF fail = "reopen"
        THEN [db |-> renamed, ok |-> FALSE]
        ELSE [db |-> [renamed EXCEPT !.seg =
                         SegmentNew(old_path, renamed.dir[old_path],
                                    renamed.disk[renamed.dir[old_path]])],
              ok |-> TRUE]

\* ChronosDb::compact: the possible outcomes; ok is whether it returned Ok
DbCompact(d, history_limit, fail, failAt) ==
    LET new_path == WithExtensionCompacted(d.seg.file_path)
        newino == IF d.dir[new_path] # NoInode THEN d.dir[new_path] ELSE FreeInode(d)
        d0 == [d EXCEPT !.dir[new_path] = newino]
        st0 == [disk |-> d0.disk, rpos |-> d.seg.pos,
                nseg |-> SegmentNew(new_path, newino, d0.disk[newino]),
                newidx |-> <<>>, appends |-> 0, failed |-> FALSE]
    IN  IF fail = "create" THEN {[db |-> d, ok |-> FALSE]}
        ELSE {CompactFinish(d0, st, fail) :
                st \in UNION {CopyKeys(st0, d, keys, 1, history_limit,
                                       IF fail = "append" THEN failAt ELSE 0)
                              : keys \in Orders(DOMAIN d.index)}}

----------------------------------------------------------------------------
(* The primary store as a state machine: one action per operation.          *)

NoSnapshot == <<[k |-> "none"]>>

\* no operation of the writer is in progress
Idle == [op |-> "idle"]

\* server.rs: a connection just accepted: open, no frame read yet.  frame is
\* the frame handled last (<<>>: none), replies what was written for it.
ConnNew == [open |-> TRUE, frame |-> <<>>, replies |-> <<>>]

\* ChronosStore::new: no snapshot, nothing purged, no vote, the default
\* membership (no log id, configuration 0).  applied is history, the log id
\* of the last entry applied or of the snapshot installed: the store keeps
\* none, Raft's core does.
StoreNew ==
    [current_snapshot |-> None, last_purged_log_id |-> None, vote |-> None,
     stored_membership |-> [log_id |-> None, membership |-> 0],
     responses |-> <<>>, applied |-> None]

NumThreads == 2
Threads == 1..NumThreads

\* no thread is inside a call of the HNSW index; step counts the lock() calls
\* the thread has come through, id is the call's argument
LocksFree == [t \in Threads |-> [op |-> "idle", step |-> 0, id |-> 0]]

EmptyDisk == [i \in Inodes |-> <<>>]

\* ChronosDb::new on a fresh data directory
InitDb ==
    /\ disk = EmptyDisk
    /\ dir = [p \in Paths |-> IF p = WalPath THEN 1 ELSE NoInode]
    /\ active_segment = SegmentNew(WalPath, 1, <<>>)
    /\ index = <<>>
    /\ bloom_filter = BloomNew
    /\ vector_index = HnswNew(M_MAX)

InitHistory ==
    /\ current_snapshot = NoSnapshot
    /\ inserted = [id \in Ids |-> <<>>]
    /\ disturbed = {}
    /\ tomb = {}
    /\ snapFresh = FALSE
    /\ log = <<>>
    /\ acked = [id \in Ids |-> None]
    /\ ncompact = 0
    /\ appended = {}
    /\ bloomed = {}
    /\ pc = Idle
    /\ conn = ConnNew
    /\ reader = Idle
    /\ raft = StoreNew
    /\ locks = LocksFree

Init == InitDb /\ InitHistory

Fits(d, cells) == d.seg.current_offset + cells <= MaxOffset

Insert(record, layers) ==
    /\ Fits(CurDb, Len(Frame(record)))
    /\ SetDb(DbInsert(CurDb, record, layers).db)
    /\ inserted' = IF record.key \in disturbed THEN inserted
                   ELSE [inserted EXCEPT ![record.key] = Append(@, record)]
    /\ tomb' = tomb \ {record.key}
    /\ snapFresh' = FALSE
    /\ UNCHANGED <<current_snapshot, log, disturbed, acked, ncompact, auxvars>>

Delete(id) ==
    /\ SetDb(DbDelete(CurDb, id).db)
    /\ inserted' = [inserted EXCEPT ![id] = <<>>]
    /\ disturbed' = disturbed \cup {id}
    /\ tomb' = tomb \cup {id}
    /\ snapFresh' = FALSE
    /\ UNCHANGED <<current_snapshot, log, acked, ncompact, auxvars>>

\* A read changes nothing but the segment's file position.
ReadMoves(pos) ==
    /\ active_segment' = [active_segment EXCEPT !.pos = pos]
    /\ snapFresh' = FALSE
    /\ UNCHANGED <<disk, dir, index, bloom_filter, vector_index, current_snapshot,
                   log, inserted, disturbed, tomb, acked, ncompact, auxvars>>

GetLatest(id) == \E o \in get_latest(CurDb, id) : ReadMoves(o.pos)

GetAsOf(id, target_time) == \E o \in get_as_of(CurDb, id, target_time) : ReadMoves(o.pos)

GetHistory(id) == \E o \in get_history(CurDb, id) : ReadMoves(o.pos)

Snapshot ==
    \E o \in snapshot(CurDb) :
        /\ active_segment' = [active_segment EXCEPT !.pos = o.pos]
        /\ current_snapshot' = o.res
        /\ snapFresh' = TRUE
        /\ UNCHANGED <<disk, dir, index, bloom_filter, vector_index,
                       log, inserted, disturbed, tomb, acked, ncompact, auxvars>>

Restore(levels) ==
    /\ current_snapshot # NoSnapshot
    /\ Fits(CurDb, Len(current_snapshot) + Len(DeserializeVec(current_snapshot)))
    /\ SetDb(DbRestore(CurDb, current_snapshot, levels).db)
    /\ inserted' = [id \in Ids |-> <<>>]
    /\ disturbed' = Ids
    /\ tomb' = {}
    /\ snapFresh' = FALSE
    /\ UNCHANGED <<current_snapshot, log, acked, ncompact, auxvars>>

Compact(history_limit, fail, failAt) ==
    /\ ncompact < MaxCompactions
    /\ ncompact' = ncompact + 1
    /\ \E c \in DbCompact(CurDb, history_limit, fail, failAt) : SetDb(c.db)
    /\ inserted' = [id \in Ids |-> <<>>]
    /\ disturbed' = Ids
    /\ snapFresh' = FALSE
    /\ UNCHANGED <<current_snapshot, log, tomb, acked, auxvars>>

\* The store under inserts, deletes and the three reads, over all records.
Next ==
    \/ \E r \in Records, l \in Levels : Insert(r, l)
    \/ \E id \in Ids : Delete(id)
    \/ \E id \in Ids : GetLatest(id)
    \/ \E id \in Ids, t \in QueryTimes : GetAsOf(id, t)
    \/ \E id \in Ids : GetHistory(id)

Spec == Init /\ [][Next]_vars

\* The records of the specifications below: one vector, one timestamp.
SmallRecords == {RecordNew(k, <<1, 0>>, p, 1) : k \in Ids, p \in Payloads}

\* The store under snapshot and restore.
NextSnap ==
    \/ \E r \in SmallRecords, l \in Levels : Insert(r, l)
    \/ \E id \in Ids : Delete(id)
    \/ \E id \in Ids : GetLatest(id)
    \/ Snapshot
    \/ \E levels \in [1..NumIds -> Levels] : Restore(levels)

SpecSnap == Init /\ [][NextSnap]_vars

\* The runs of compact(): the call that fails, and for "append" which one.
CompactRuns ==
    {<<f, 0>> : f \in FailPoints \ {"append"}} \cup {<<"append", n>> : n \in 1..2}

\* The store under compaction, with the file system calls that can fail.
NextCompact ==
    \/ \E r \in SmallRecords : Insert(r, 0)
    \/ \E id \in Ids : Delete(id)
    \/ \E id \in Ids : GetLatest(id)
    \/ \E id \in Ids : GetHistory(id)
    \/ \E K \in 0..MaxK, run \in CompactRuns : Compact(K, run[1], run[2])

SpecCompact == Init /\ [][NextCompact]_vars

----------------------------------------------------------------------------
(* cluster/types.rs, cluster/store.rs, server.rs: a client's write on the   *)
(* leader.  Raft::client_write either fails (not the leader, no quorum:     *)
(* nothing is appended or applied) or returns after the entry is in the log *)
(* and apply_to_state_machine has run on it.                                *)

InsertReq(id, vector, payload, ts) ==
    [op |-> "Insert", id |-> id, vector |-> vector, payload |-> payload, ts |-> ts]
UpdateReq(id, payload, ts) ==
    [op |-> "Update", id |-> id, payload |-> payload, ts |-> ts]
DeleteReq(id) == [op |-> "Delete", id |-> id]

\* ChronosStore::append_to_log for one entry
append_to_log(l, req) == Append(l, req)

\* an apply whose Update of an id without a version inserts one
apply_upsert(d, req, layers) ==
    IF req.op = "Insert"
    THEN {DbInsert(d, RecordNew(req.id, req.vector, req.payload, req.ts), layers).db}
    ELSE IF req.op = "Update"
    THEN {DbInsert([d EXCEPT !.seg.pos = o.pos],
                   RecordNew(req.id, IF o.res # None THEN o.res[1].vector ELSE <<1, 0>>,
                             req.payload, req.ts),
                   layers).db
          : o \in get_latest(d, req.id)}
    ELSE {DbDelete(d, req.id).db}

\* apply_to_state_machine on one Normal entry: the stores it can leave.  The
\* result of the store call is dropped (let _ =); the response is success.
apply_to_state_machine(d, req, layers) ==
    IF req.op = "Insert"
    THEN {DbInsert(d, RecordNew(req.id, req.vector, req.payload, req.ts), layers).db}
    ELSE IF req.op = "Update"
    THEN {IF o.res # None
          THEN DbInsert([d EXCEPT !.seg.pos = o.pos],
                        RecordNew(req.id, o.res[1].vector, req.payload, req.ts),
                        layers).db
          ELSE [d EXCEPT !.seg.pos = o.pos]
          : o \in get_latest(d, req.id)}
    ELSE {DbDelete(d, req.id).db}

\* Raft::client_write that committed: the log append, then the apply
client_write(req, layers) ==
    /\ Len(log) < MaxLog
    /\ log' = append_to_log(log, req)
    /\ \E d \in apply_to_state_machine(CurDb, req, layers) : SetDb(d)
    /\ inserted' = [id \in Ids |-> <<>>]
    /\ disturbed' = Ids
    /\ tomb' = {}
    /\ snapFresh' = FALSE
    /\ UNCHANGED <<current_snapshot, ncompact, appended, bloomed, pc,
                   reader, raft, locks>>

\* the replies of the wire protocol
OK == [tag |-> "OK"]
ER == [tag |-> "ER"]
NotFound == [tag |-> "get", found |-> 0]
Found(payload) == [tag |-> "get", found |-> 1, payload |-> payload]
SearchReply(found) == [tag |-> "search", count |-> Len(found), pairs |-> found]
HistoryReply(history) ==
    [tag |-> "history", count |-> Len(history),
     versions |-> [i \in 1..Len(history) |->
                      <<history[i].start, history[i].end, history[i].payload>>]]

Ops == {"INSERT", "GET", "SEARCH", "HISTORY", "DELETE", "UPDATE", "GET_AS_OF", "COMPACT"}

\* a frame as handle_client reads it: the opcode, whether the declared length
\* is over the 65536 bytes of the buffer, whether the body parses
Frame3(op, oversize, wellformed) ==
    [op |-> op, oversize |-> oversize, wellformed |-> wellformed]
Request(op) == Frame3(op, FALSE, TRUE)

\* one turn of handle_client's loop: what was written, and whether it loops
Handled(frame, replies, open) ==
    conn' = [open |-> open, frame |-> <<frame>>, replies |-> replies]

allbutconn == <<disk, dir, active_segment, index, bloom_filter, vector_index,
                current_snapshot, log, inserted, disturbed, tomb, snapFresh, acked,
                ncompact, appended, bloomed, pc,
                   reader, raft, locks>>

\* handle_insert on a well-formed body: "OK" when client_write is Ok, else "ER"
HandleInsert(id, vector, payload, ts, layers, committed) ==
    /\ conn.open
    /\ IF committed
       THEN /\ Fits(CurDb, Len(Frame(RecordNew(id, vector, payload, ts))))
            /\ client_write(InsertReq(id, vector, payload, ts), layers)
            /\ acked' = [acked EXCEPT ![id] = Some(payload)]
            /\ Handled(Request("INSERT"), <<OK>>, TRUE)
       ELSE /\ Handled(Request("INSERT"), <<ER>>, TRUE)
            /\ UNCHANGED allbutconn

\* handle_update on a well-formed body
HandleUpdate(id, payload, ts, layers, committed) ==
    /\ conn.open
    /\ IF committed
       THEN /\ Fits(CurDb, Len(Frame(RecordNew(id, <<1, 0>>, payload, ts))))
            /\ client_write(UpdateReq(id, payload, ts), layers)
            /\ acked' = [acked EXCEPT ![id] =
                            IF Offsets(CurDb, id) # <<>> THEN Some(payload) ELSE @]
            /\ Handled(Request("UPDATE"), <<OK>>, TRUE)
       ELSE /\ Handled(Request("UPDATE"), <<ER>>, TRUE)
            /\ UNCHANGED allbutconn

\* handle_delete on a 16-byte body
HandleDelete(id, committed) ==
    /\ conn.open
    /\ IF committed
       THEN /\ client_write(DeleteReq(id), 0)
            /\ acked' = [acked EXCEPT ![id] = None]
            /\ Handled(Request("DELETE"), <<OK>>, TRUE)
       ELSE /\ Handled(Request("DELETE"), <<ER>>, TRUE)
            /\ UNCHANGED allbutconn

\* a read handler: the read moves the file position, the reply is written
ReadReplies(pos, op, reply) ==
    /\ conn.open
    /\ active_segment' = [active_segment EXCEPT !.pos = pos]
    /\ snapFresh' = FALSE
    /\ Handled(Request(op), <<reply>>, TRUE)
    /\ UNCHANGED <<disk, dir, index, bloom_filter, vector_index, current_snapshot,
                   log, inserted, disturbed, tomb, acked, ncompact, appended, bloomed, pc,
                   reader, raft, locks>>

GetReply(res) == IF res = None THEN NotFound ELSE Found(res[1].payload)

\* handle_get on a 16-byte body: the reply is the found marker and the payload
HandleGet(id) ==
    \E o \in get_latest(CurDb, id) : ReadReplies(o.pos, "GET", GetReply(o.res))

\* handle_get_as_of on a 24-byte body
HandleGetAsOf(id, target_time) ==
    \E o \in get_as_of(CurDb, id, target_time) :
        ReadReplies(o.pos, "GET_AS_OF", GetReply(o.res))

\* handle_history on a 16-byte body
HandleHistory(id) ==
    \E o \in get_history(CurDb, id) : ReadReplies(o.pos, "HISTORY", HistoryReply(o.res))

\* handle_search on a body that holds k and the query.  search runs on the
\* connection's task: its panic ends the task, and with it the connection.
HandleSearch(query, k) ==
    /\ conn.open
    /\ \E out \in VectorSearch(vector_index, query, k) :
          IF out.panic
          THEN Handled(Request("SEARCH"), <<>>, FALSE)
          ELSE Handled(Request("SEARCH"), <<SearchReply(out.found)>>, TRUE)
    /\ UNCHANGED allbutconn

\* handle_compact on an 8-byte body
HandleCompact(history_limit, fail, failAt) ==
    /\ conn.open
    /\ ncompact < MaxCompactions
    /\ ncompact' = ncompact + 1
    /\ \E c \in DbCompact(CurDb, history_limit, fail, failAt) :
          /\ SetDb(c.db)
          /\ Handled(Request("COMPACT"), <<IF c.ok THEN OK ELSE ER>>, TRUE)
    /\ inserted' = [id \in Ids |-> <<>>]
    /\ disturbed' = Ids
    /\ snapFresh' = FALSE
    /\ UNCHANGED <<current_snapshot, log, tomb, acked, appended, bloomed, pc,
                   reader, raft, locks>>

\* what each handler writes for a body it cannot parse; all of them return
\* Ok(()), so handle_client goes on to the next frame
BadBodyReplies(op) ==
    IF op \in {"INSERT", "UPDATE", "COMPACT"} THEN <<ER>>
    ELSE IF op = "GET_AS_OF" THEN <<NotFound>>
    ELSE <<>>

\* a frame of a known opcode whose body its handler cannot parse
HandleBadBody(op) ==
    /\ conn.open
    /\ Handled(Frame3(op, FALSE, FALSE), BadBodyReplies(op), TRUE)
    /\ UNCHANGED allbutconn

\* handle_client on a declared length over the buffer's: return Ok(())
FrameOversize(op) ==
    /\ conn.open
    /\ Handled(Frame3(op, TRUE, FALSE), <<>>, FALSE)
    /\ UNCHANGED allbutconn

\* handle_client on an opcode that is none of the eight: return Ok(())
FrameUnknownOp ==
    /\ conn.open
    /\ Handled(Frame3("unknown", FALSE, FALSE), <<>>, FALSE)
    /\ UNCHANGED allbutconn

\* ChronosServer::run: listener.accept() and a new task for the connection
Accept ==
    /\ ~conn.open
    /\ conn' = ConnNew
    /\ UNCHANGED allbutconn

\* The leader under client requests.
NextServer ==
    \/ \E id \in Ids, p \in Payloads, c \in BOOLEAN : HandleInsert(id, <<1, 0>>, p, 1, 0, c)
    \/ \E id \in Ids, p \in Payloads, c \in BOOLEAN : HandleUpdate(id, p, 1, 0, c)
    \/ \E id \in Ids, c \in BOOLEAN : HandleDelete(id, c)
    \/ \E id \in Ids : HandleGet(id)

SpecServer == Init /\ [][NextServer]_vars

\* The server on one connection at a time, over every frame a client can send.
NextConn ==
    \/ \E id \in Ids, c \in BOOLEAN : HandleInsert(id, <<1, 0>>, <<>>, 1, 0, c)
    \/ \E id \in Ids, c \in BOOLEAN : HandleUpdate(id, <<1>>, 1, 0, c)
    \/ \E id \in Ids, c \in BOOLEAN : HandleDelete(id, c)
    \/ \E id \in Ids : HandleGet(id)
    \/ \E id \in Ids, t \in QueryTimes : HandleGetAsOf(id, t)
    \/ \E id \in Ids : HandleHistory(id)
    \/ \E q \in Vectors, k \in 0..MaxK : HandleSearch(q, k)
    \/ \E K \in 0..MaxK, f \in {"none", "create"} : HandleCompact(K, f, 0)
    \/ \E op \in Ops : HandleBadBody(op)
    \/ \E op \in Ops \cup {"unknown"} : FrameOversize(op)
    \/ FrameUnknownOp
    \/ Accept

SpecConn == Init /\ [][NextConn]_vars

----------------------------------------------------------------------------
(* index.rs: the HNSW graph on its own, built with a small m_max.           *)

NumHnswIds == 3      \* node ids of the graph on its own are 1..NumHnswIds
HnswIds == 1..NumHnswIds

storevars == <<disk, dir, active_segment, index, bloom_filter>>
histvars == <<current_snapshot, log, inserted, disturbed, tomb, snapFresh, acked, ncompact,
              auxvars>>

InitHnsw ==
    /\ disk = EmptyDisk
    /\ dir = [p \in Paths |-> IF p = WalPath THEN 1 ELSE NoInode]
    /\ active_segment = SegmentNew(WalPath, 1, <<>>)
    /\ index = <<>>
    /\ bloom_filter = BloomNew
    /\ vector_index \in {HnswNew(m) : m \in 1..MaxM}
    /\ InitHistory

\* A call on a poisoned lock panics and changes nothing.
VectorInsert(id, vector, layers) ==
    /\ ~vector_index.poisoned
    /\ vector_index' = HnswInsert(vector_index, id, vector, layers)
    /\ UNCHANGED <<storevars, histvars>>

VectorRemove(id) ==
    /\ ~vector_index.poisoned
    /\ vector_index' = HnswRemove(vector_index, id)
    /\ UNCHANGED <<storevars, histvars>>

VectorClear ==
    /\ ~vector_index.poisoned
    /\ vector_index' = HnswClear(vector_index)
    /\ UNCHANGED <<storevars, histvars>>

NextHnsw ==
    \/ \E id \in HnswIds, v \in Vectors, l \in Levels : VectorInsert(id, v, l)
    \/ \E id \in HnswIds : VectorRemove(id)
    \/ VectorClear

SpecHnsw == InitHnsw /\ [][NextHnsw]_vars

----------------------------------------------------------------------------
(* storage.rs: the segment on its own, under append, read and re-open.      *)

dbaux == <<dir, index, bloom_filter, vector_index, current_snapshot, log, inserted,
           disturbed, tomb, snapFresh, acked, ncompact, bloomed, pc, conn,
           reader, raft, locks>>

\* Segment::append(record)
SegAppend(record) ==
    LET a == SegmentAppend(active_segment, disk[active_segment.ino], record) IN
    /\ active_segment.current_offset + Len(Frame(record)) <= MaxOffset
    /\ active_segment' = a.seg
    /\ disk' = [disk EXCEPT ![active_segment.ino] = a.data]
    /\ appended' = appended \cup {<<a.offset, record>>}
    /\ UNCHANGED dbaux

\* Segment::read(offset), for an offset that append returned
SegRead(offset) ==
    /\ \E a \in appended : a[1] = offset
    /\ \E o \in SegmentRead(disk[active_segment.ino], offset) :
           active_segment' = [active_segment EXCEPT !.pos = o.pos]
    /\ UNCHANGED <<disk, appended, dbaux>>

\* Segment::new on the path of the segment: the file is opened as it is
SegOpen ==
    /\ active_segment' = SegmentNew(active_segment.file_path, active_segment.ino,
                                    disk[active_segment.ino])
    /\ UNCHANGED <<disk, appended, dbaux>>

NextSegment ==
    \/ \E r \in SmallRecords : SegAppend(r)
    \/ \E o \in 0..MaxOffset : SegRead(o)
    \/ SegOpen

SpecSegment == Init /\ [][NextSegment]_vars

----------------------------------------------------------------------------
(* lib.rs: insert and restore step by step.  Each step takes and releases   *)
(* one lock, so a reader, and compact() on the GC thread, can see the store *)
(* between two steps.  The writes themselves come one at a time (the Raft   *)
(* state machine applies entries and installs snapshots in sequence).       *)

stepaux == <<dir, current_snapshot, log, inserted, disturbed, tomb, snapFresh, acked,
             ncompact, appended, bloomed, conn, reader, raft, locks>>

\* an insert that makes the index entry before the bloom filter's
StepAfterIndexFirst(step) ==
    CASE step = "append" -> "index"
      [] step = "index" -> "bloom"
      [] step = "bloom" -> "vector"
      [] OTHER -> "done"

\* the order of the steps of ChronosDb::insert after the append
StepAfter(step) ==
    CASE step = "append" -> "bloom"
      [] step = "bloom" -> "index"
      [] step = "index" -> "vector"
      [] OTHER -> "done"

\* where a finished insert returns to: its caller, or restore's loop
Return(p) ==
    IF p.restoring
    THEN [op |-> "restore", step |-> "loop", rest |-> p.rest, levels |-> p.levels]
    ELSE Idle

Advance(p) ==
    IF StepAfter(p.step) = "done" THEN Return(p) ELSE [p EXCEPT !.step = StepAfter(@)]

\* insert's first step: segment.append under the segment lock; epoch is
\* history, the number of compactions when the insert began
AppendStep(record, layers, restoring, rest, levels) ==
    LET a == SegmentAppend(active_segment, disk[active_segment.ino], record) IN
    /\ active_segment' = a.seg
    /\ disk' = [disk EXCEPT ![active_segment.ino] = a.data]
    /\ pc' = [op |-> "insert", step |-> StepAfter("append"), record |-> record,
              offset |-> a.offset, layers |-> layers, restoring |-> restoring,
              rest |-> rest, levels |-> levels, epoch |-> ncompact]

InsertBegin(record, layers) ==
    /\ pc = Idle
    /\ Fits(CurDb, Len(Frame(record)))
    /\ AppendStep(record, layers, FALSE, <<>>, <<>>)
    /\ UNCHANGED <<index, bloom_filter, vector_index, stepaux>>

\* bf.insert under the bloom filter's write lock
InsertBloom ==
    /\ pc.op = "insert" /\ pc.step = "bloom"
    /\ bloom_filter' = BloomInsert(bloom_filter, pc.record.key)
    /\ pc' = Advance(pc)
    /\ UNCHANGED <<disk, active_segment, index, vector_index, stepaux>>

\* idx.entry(id).or_insert_with(Vec::new).push(offset) under the index lock
InsertIndex ==
    /\ pc.op = "insert" /\ pc.step = "index"
    /\ index' = MapPut(index, pc.record.key,
                       Append(Offsets(CurDb, pc.record.key), pc.offset))
    /\ pc' = Advance(pc)
    /\ UNCHANGED <<disk, active_segment, bloom_filter, vector_index, stepaux>>

\* vector_index.insert: a panic ends the call and whatever called it
InsertVector ==
    /\ pc.op = "insert" /\ pc.step = "vector"
    /\ LET h == HnswInsert(vector_index, pc.record.key, pc.record.vector, pc.layers) IN
       IF vector_index.poisoned
       THEN pc' = Idle /\ UNCHANGED vector_index
       ELSE vector_index' = h /\ pc' = IF h.poisoned THEN Idle ELSE Advance(pc)
    /\ UNCHANGED <<disk, active_segment, index, bloom_filter, stepaux>>

\* the snapshots restore is called with: those of up to NumIds records
SnapshotInputs ==
    {SerializeVec(rs) : rs \in UNION {[1..n -> SmallRecords] : n \in 0..NumIds}}

\* restore's first step: idx.clear()
RestoreBegin(snapshot_data, levels) ==
    /\ pc = Idle
    /\ Fits(CurDb, Len(snapshot_data) + Len(DeserializeVec(snapshot_data)))
    /\ index' = <<>>
    /\ pc' = [op |-> "restore", step |-> "bloom",
              rest |-> DeserializeVec(snapshot_data), levels |-> levels]
    /\ UNCHANGED <<disk, active_segment, bloom_filter, vector_index, stepaux>>

\* *bf = BloomFilter::new(..)
RestoreBloom ==
    /\ pc.op = "restore" /\ pc.step = "bloom"
    /\ bloom_filter' = BloomNew
    /\ pc' = [pc EXCEPT !.step = "vector"]
    /\ UNCHANGED <<disk, active_segment, index, vector_index, stepaux>>

\* vector_index.clear()
RestoreVectorClear ==
    /\ pc.op = "restore" /\ pc.step = "vector"
    /\ IF vector_index.poisoned
       THEN pc' = Idle /\ UNCHANGED vector_index
       ELSE vector_index' = HnswClear(vector_index) /\ pc' = [pc EXCEPT !.step = "loop"]
    /\ UNCHANGED <<disk, active_segment, index, bloom_filter, stepaux>>

\* for record in records { self.insert(record)? }: the next insert's append
RestoreLoop ==
    /\ pc.op = "restore" /\ pc.step = "loop"
    /\ IF pc.rest = <<>>
       THEN pc' = Idle /\ UNCHANGED <<disk, active_segment>>
       ELSE AppendStep(Head(pc.rest), pc.levels[Len(pc.rest)], TRUE, Tail(pc.rest),
                       pc.levels)
    /\ UNCHANGED <<index, bloom_filter, vector_index, stepaux>>

NextSteps ==
    \/ \E r \in SmallRecords : InsertBegin(r, 0)
    \/ InsertBloom
    \/ InsertIndex
    \/ InsertVector
    \/ \E data \in SnapshotInputs : RestoreBegin(data, [i \in 1..NumIds |-> 0])
    \/ RestoreBloom
    \/ RestoreVectorClear
    \/ RestoreLoop
    \/ \E id \in Ids : pc = Idle /\ Delete(id)
    \/ \E K \in 0..MaxK : Compact(K, "none", 0)

SpecSteps == Init /\ [][NextSteps]_vars

----------------------------------------------------------------------------
(* filter.rs: the bloom filter on its own, under insert.                    *)

MaxBloomKey == 7     \* the keys given to the filter on its own are 0..MaxBloomKey
BloomKeys == 0..MaxBloomKey

bloomaux == <<disk, dir, active_segment, index, vector_index, current_snapshot, log,
              inserted, disturbed, tomb, snapFresh, acked, ncompact, appended, pc, conn,
              reader, raft, locks>>

\* BloomFilter::insert(key)
FilterInsert(key) ==
    /\ bloom_filter' = BloomInsert(bloom_filter, key)
    /\ bloomed' = bloomed \cup {key}
    /\ UNCHANGED bloomaux

NextBloom == \E key \in BloomKeys : FilterInsert(key)

SpecBloom == Init /\ [][NextBloom]_vars

----------------------------------------------------------------------------
(* server.rs: the sizes of a frame.  The body of a frame is the declared    *)
(* length; an INSERT body is the id, the vector and the payload, an UPDATE  *)
(* body the id and the payload.                                             *)

BUFFER_LEN == 65536   \* let mut buffer = [0u8; 65536]
VECTOR_DIM == 128     \* model.rs: pub const VECTOR_DIM
MaxOver == 8          \* declared lengths are 0..BUFFER_LEN + MaxOver

\* Uuid (16 bytes) and VECTOR_DIM f32 values
InsertHeaderLen == 16 + VECTOR_DIM * 4
UpdateHeaderLen == 16

HeaderLen(op) == IF op = "INSERT" THEN InsertHeaderLen ELSE UpdateHeaderLen

\* a frame with the sizes handle_client and the handler see
SizedFrame(op, length) ==
    [op |-> op, length |-> length,
     oversize |-> length > BUFFER_LEN,
     wellformed |-> length <= BUFFER_LEN /\ length >= HeaderLen(op),
     payload_len |-> IF length >= HeaderLen(op) THEN length - HeaderLen(op) ELSE 0]

\* The first frame of a connection, an INSERT or an UPDATE of the declared
\* length: dropped when over the buffer, "ER" when shorter than the header,
\* else the request goes to client_write with the rest of the body as payload.
ReadSizedFrame(op, length, committed) ==
    LET f == SizedFrame(op, length) IN
    /\ conn = ConnNew
    /\ IF f.oversize THEN Handled(f, <<>>, FALSE)
       ELSE IF ~f.wellformed THEN Handled(f, <<ER>>, TRUE)
       ELSE Handled(f, <<IF committed THEN OK ELSE ER>>, TRUE)
    /\ UNCHANGED allbutconn

\* the peer closes, and connects again
Reconnect ==
    /\ conn # ConnNew
    /\ conn' = ConnNew
    /\ UNCHANGED allbutconn

\* the lengths where a check of the code or a bound of the protocol changes
\* its answer: the two headers, the bound on the payload after each header,
\* and the buffer
Boundaries ==
    {0, UpdateHeaderLen, InsertHeaderLen, UpdateHeaderLen + (BUFFER_LEN - 20),
     InsertHeaderLen + (BUFFER_LEN - 20), BUFFER_LEN}

\* the declared lengths tried: those within MaxOver of a boundary
FrameLengths ==
    {l \in 0..(BUFFER_LEN + MaxOver) :
        \E b \in Boundaries : l - b <= MaxOver /\ b - l <= MaxOver}

NextFrameSize ==
    \/ /\ conn = ConnNew
       /\ \E op \in {"INSERT", "UPDATE"}, length \in FrameLengths, c \in BOOLEAN :
             ReadSizedFrame(op, length, c)
    \/ Reconnect

SpecFrameSize == Init /\ [][NextFrameSize]_vars

----------------------------------------------------------------------------
(* lib.rs: a read in steps.  get_latest tests the bloom filter, takes the   *)
(* last offset under the index's read lock, releases the lock, and only     *)
(* then locks the segment in read_record: a write of another thread can run *)
(* between the two.  before and epoch are history: what get_latest would    *)
(* have returned when the read began, and the compactions until then.       *)

readaux == <<disk, dir, index, bloom_filter, vector_index, current_snapshot, log,
             inserted, disturbed, tomb, acked, ncompact, appended, bloomed, pc, conn,
             raft, locks>>

\* get_latest up to the release of the index lock
ReadBegin(id) ==
    /\ reader.op # "get_latest"
    /\ reader' =
          IF ~BloomContains(bloom_filter, id) \/ Offsets(CurDb, id) = <<>>
          THEN [op |-> "returned", id |-> id, offset |-> None, res |-> None,
                before |-> {o.res : o \in get_latest(CurDb, id)}, epoch |-> ncompact]
          ELSE [op |-> "get_latest", id |-> id,
                offset |-> Some(Last(Offsets(CurDb, id))), res |-> None,
                before |-> {o.res : o \in get_latest(CurDb, id)}, epoch |-> ncompact]
    /\ UNCHANGED <<active_segment, snapFresh, readaux>>

\* self.read_record(offset): the segment lock, then Segment::read
ReadFinish ==
    /\ reader.op = "get_latest"
    /\ \E o \in read_record(CurDb, reader.offset[1]) :
          /\ active_segment' = [active_segment EXCEPT !.pos = o.pos]
          /\ reader' = [reader EXCEPT !.op = "returned", !.res = o.res]
    /\ snapFresh' = FALSE
    /\ UNCHANGED readaux

\* One writer inserting, step by step, and one reader; no compaction.
NextReadInsert ==
    \/ \E r \in SmallRecords : InsertBegin(r, 0)
    \/ InsertBloom
    \/ InsertIndex
    \/ InsertVector
    \/ \E id \in Ids : ReadBegin(id)
    \/ ReadFinish

SpecReadInsert == Init /\ [][NextReadInsert]_vars

\* One reader against compaction; the inserts (of records without payload)
\* come while no read is under way, so that a read differs from the one before
\* it by compaction alone.  One compaction per run.
NextReadCompact ==
    \/ /\ reader.op # "get_latest"
       /\ \E id \in Ids : Insert(RecordNew(id, <<1, 0>>, <<>>, 1), 0)
    \/ \E id \in Ids : ReadBegin(id)
    \/ ReadFinish
    \/ ncompact = 0 /\ \E K \in 0..MaxK : Compact(K, "none", 0)

SpecReadCompact == Init /\ [][NextReadCompact]_vars

----------------------------------------------------------------------------
(* cluster/store.rs: ChronosStore, the storage Raft works on.  log maps an  *)
(* index to its entry (a BTreeMap); raft holds the other fields and, as     *)
(* responses, what the last apply_to_state_machine returned.  A LogId is a  *)
(* term and an index; a membership is the number of a configuration.       *)

MaxTerm == 2
MaxIndex == 3
MaxBatch == 2

LogIds == {[term |-> t, index |-> i] : t \in 1..MaxTerm, i \in 1..MaxIndex}

\* LogId::default()
LogIdDefault == [term |-> 0, index |-> 0]

\* EntryPayload
Blank == [kind |-> "Blank"]
Membership(m) == [kind |-> "Membership", membership |-> m]
Normal(req) == [kind |-> "Normal", req |-> req]

EntryNew(log_id, payload) == [log_id |-> log_id, payload |-> payload]

\* StoredMembership::new
StoredMembershipNew(log_id, m) == [log_id |-> log_id, membership |-> m]

\* ChronosResponse; every one the store makes has success: true
Response(message) == [success |-> TRUE, message |-> message]

\* log.iter().last(): the entry with the highest index
LastEntry(l) ==
    IF DOMAIN l = {} THEN None
    ELSE Some(l[CHOOSE k \in DOMAIN l : \A j \in DOMAIN l : j <= k])

\* ChronosStore::get_log_state
get_log_state(l, st) ==
    LET last_purged == st.last_purged_log_id
        last_log == IF LastEntry(l) = None THEN None ELSE Some(LastEntry(l)[1].log_id)
    IN  [last_purged_log_id |-> last_purged,
         last_log_id |-> IF last_log # None THEN last_log ELSE last_purged]

\* ChronosStore::append_to_log for a batch: log.insert(entry.log_id.index, entry)
RECURSIVE AppendEntries(_, _)
AppendEntries(l, entries) ==
    IF entries = <<>> THEN l
    ELSE AppendEntries(MapPut(l, entries[1].log_id.index, entries[1]), Tail(entries))

\* a truncation that keeps the entry at log_id.index
delete_conflict_logs_after(l, log_id) ==
    [k \in {k \in DOMAIN l : k <= log_id.index} |-> l[k]]

\* ChronosStore::delete_conflict_logs_since: remove log.range(log_id.index..)
delete_conflict_logs_since(l, log_id) ==
    [k \in {k \in DOMAIN l : k < log_id.index} |-> l[k]]

\* ChronosStore::purge_logs_upto: remove log.range(..=log_id.index)
purge_logs_upto(l, log_id) ==
    [k \in {k \in DOMAIN l : k > log_id.index} |-> l[k]]

\* the keys of a BTreeMap range, in the order the map yields them
RECURSIVE AscendingKeys(_)
AscendingKeys(S) ==
    IF S = {} THEN <<>>
    ELSE LET k == CHOOSE k \in S : \A j \in S : k <= j
         IN  <<k>> \o AscendingKeys(S \ {k})

\* ChronosStore::try_get_log_entries(lo..=hi)
try_get_log_entries(l, lo, hi) ==
    LET keys == AscendingKeys({k \in DOMAIN l : lo <= k /\ k <= hi})
    IN  [i \in 1..Len(keys) |-> l[keys[i]]]

\* ChronosStore::get_current_snapshot
get_current_snapshot(st) == st.current_snapshot

\* ChronosStore::read_vote
read_vote(st) == st.vote

\* ChronosStore::last_applied_state: Ok((None, membership))
last_applied_state(st) == <<None, st.stored_membership>>

\* a batch applied last entry first
RECURSIVE ApplyEntriesBackwards(_, _)
ApplyEntriesBackwards(st, entries) ==
    IF entries = <<>> THEN {st}
    ELSE LET e == entries[Len(entries)]
             rest == SubSeq(entries, 1, Len(entries) - 1)
         IN  IF e.payload.kind = "Normal"
             THEN UNION {ApplyEntriesBackwards(
                             [st EXCEPT !.db = d, !.responses = Append(@, Response("OK"))],
                             rest)
                         : d \in apply_to_state_machine(st.db, e.payload.req, 0)}
             ELSE IF e.payload.kind = "Membership"
             THEN ApplyEntriesBackwards(
                      [st EXCEPT !.stored_membership =
                                     StoredMembershipNew(Some(e.log_id), e.payload.membership),
                                 !.responses = Append(@, Response("Membership Change"))],
                      rest)
             ELSE ApplyEntriesBackwards(
                      [st EXCEPT !.responses = Append(@, Response("Heartbeat"))], rest)

\* apply_to_state_machine's loop over a batch: the stores, memberships and
\* responses it can end with.  A Normal entry goes to the store and is
\* answered "OK" whatever the store returned.
RECURSIVE ApplyEntries(_, _)
ApplyEntries(st, entries) ==
    IF entries = <<>> THEN {st}
    ELSE LET e == entries[1] IN
         IF e.payload.kind = "Normal"
         THEN UNION {ApplyEntries(
                         [st EXCEPT !.db = d, !.responses = Append(@, Response("OK"))],
                         Tail(entries))
                     : d \in apply_to_state_machine(st.db, e.payload.req, 0)}
         ELSE IF e.payload.kind = "Membership"
         THEN ApplyEntries(
                  [st EXCEPT !.stored_membership =
                                 StoredMembershipNew(Some(e.log_id), e.payload.membership),
                             !.responses = Append(@, Response("Membership Change"))],
                  Tail(entries))
         ELSE ApplyEntries([st EXCEPT !.responses = Append(@, Response("Heartbeat"))],
                           Tail(entries))

\* what the calls of the store leave alone besides log, raft and the database
storeaux == <<acked, ncompact, appended, bloomed, pc, conn, reader, locks>>
storehist == <<current_snapshot, inserted, disturbed, tomb, snapFresh>>

\* append_to_log(entries)
StoreAppendToLog(entries) ==
    /\ log' = AppendEntries(log, entries)
    /\ UNCHANGED <<raft, dbvars, storehist, storeaux>>

\* delete_conflict_logs_since(log_id)
DeleteConflictLogsSince(log_id) ==
    /\ log' = delete_conflict_logs_since(log, log_id)
    /\ UNCHANGED <<raft, dbvars, storehist, storeaux>>

\* purge_logs_upto(log_id)
PurgeLogsUpto(log_id) ==
    /\ raft' = [raft EXCEPT !.last_purged_log_id = Some(log_id)]
    /\ log' = purge_logs_upto(log, log_id)
    /\ UNCHANGED <<dbvars, storehist, storeaux>>

\* save_vote(vote)
SaveVote(vote) ==
    /\ raft' = [raft EXCEPT !.vote = Some(vote)]
    /\ UNCHANGED <<log, dbvars, storehist, storeaux>>

\* the cells the inserts of a batch can add to the segment
RECURSIVE BatchCells(_)
BatchCells(entries) ==
    IF entries = <<>> THEN 0
    ELSE (IF entries[1].payload.kind = "Normal" /\ entries[1].payload.req.op # "Delete"
          THEN Len(Frame(RecordNew(entries[1].payload.req.id, <<1, 0>>,
                                   entries[1].payload.req.payload, 1)))
          ELSE 0) + BatchCells(Tail(entries))

\* apply_to_state_machine(entries)
ApplyToStateMachine(entries) ==
    /\ Fits(CurDb, BatchCells(entries))
    /\ \E st \in ApplyEntries([db |-> CurDb, stored_membership |-> raft.stored_membership,
                              responses |-> <<>>], entries) :
          /\ SetDb(st.db)
          /\ raft' = [raft EXCEPT !.stored_membership = st.stored_membership,
                                  !.responses = st.responses,
                                  !.applied = IF entries = <<>> THEN @
                                              ELSE Some(entries[Len(entries)].log_id)]
    /\ inserted' = [id \in Ids |-> <<>>]
    /\ disturbed' = Ids
    /\ tomb' = {}
    /\ snapFresh' = FALSE
    /\ UNCHANGED <<log, current_snapshot, storeaux>>

\* build_snapshot(): db.snapshot(), the meta from the log and the stored
\* membership, a fresh snapshot id; the snapshot is cached and returned
BuildSnapshot(snapshot_id) ==
    \E o \in snapshot(CurDb) :
        LET last_log_id == IF LastEntry(log) = None THEN LogIdDefault
                           ELSE LastEntry(log)[1].log_id
            meta == [last_log_id |-> Some(last_log_id),
                     last_membership |-> raft.stored_membership,
                     snapshot_id |-> snapshot_id]
        IN  /\ active_segment' = [active_segment EXCEPT !.pos = o.pos]
            /\ raft' = [raft EXCEPT !.current_snapshot = Some([meta |-> meta, data |-> o.res])]
            /\ current_snapshot' = o.res
            /\ snapFresh' = TRUE
            /\ UNCHANGED <<disk, dir, index, bloom_filter, vector_index, log,
                           inserted, disturbed, tomb, storeaux>>

\* an install that leaves last_purged_log_id as it was
InstallSnapshotKeepsPurged(meta, data, levels) ==
    LET r == DbRestore(CurDb, data, levels) IN
    /\ Fits(CurDb, Len(data) + Len(DeserializeVec(data)))
    /\ SetDb(r.db)
    /\ raft' = IF r.panic THEN raft
               ELSE [raft EXCEPT !.stored_membership = meta.last_membership,
                                 !.applied = meta.last_log_id,
                                 !.current_snapshot = Some([meta |-> meta, data |-> data])]
    /\ inserted' = [id \in Ids |-> <<>>]
    /\ disturbed' = Ids
    /\ tomb' = {}
    /\ snapFresh' = FALSE
    /\ UNCHANGED <<log, current_snapshot, storeaux>>

\* install_snapshot(meta, snapshot): db.restore, whose failure is a panic that
\* ends the call before the store's fields are written
InstallSnapshot(meta, data, levels) ==
    LET r == DbRestore(CurDb, data, levels) IN
    /\ Fits(CurDb, Len(data) + Len(DeserializeVec(data)))
    /\ SetDb(r.db)
    /\ raft' = IF r.panic THEN raft
               ELSE [raft EXCEPT !.stored_membership = meta.last_membership,
                                 !.last_purged_log_id = meta.last_log_id,
                                 !.applied = meta.last_log_id,
                                 !.current_snapshot = Some([meta |-> meta, data |-> data])]
    /\ inserted' = [id \in Ids |-> <<>>]
    /\ disturbed' = Ids
    /\ tomb' = {}
    /\ snapFresh' = FALSE
    /\ UNCHANGED <<log, current_snapshot, storeaux>>

\* batches of up to MaxBatch entries
Batches(E) == UNION {[1..n -> E] : n \in 0..MaxBatch}

\* the entries Raft appends: their payload plays no part in the log's calls
LogEntries == {EntryNew(l, Blank) : l \in LogIds}

\* the membership entries of the first term
MembershipEntries == {EntryNew(l, Membership(1)) : l \in LogIds \cap [term : {1}, index : 1..MaxIndex]}

\* The store as a log: appends, truncation, purge, votes, membership entries
\* and snapshots of the (empty) database.
NextLog ==
    \/ \E entries \in Batches(LogEntries) : StoreAppendToLog(entries)
    \/ \E l \in LogIds : DeleteConflictLogsSince(l)
    \/ \E l \in LogIds : PurgeLogsUpto(l)
    \/ \E v \in 1..MaxTerm : SaveVote(v)
    \/ \E e \in MembershipEntries : ApplyToStateMachine(<<e>>)
    \/ BuildSnapshot(1)

SpecLog == Init /\ [][NextLog]_vars

\* the payloads of the entries Raft hands to apply: requests to the database,
\* a membership change, a blank
ApplyPayloads ==
    {Normal(InsertReq(id, <<1, 0>>, <<>>, 1)) : id \in Ids}
        \cup {Normal(UpdateReq(1, <<1>>, 1)), Normal(DeleteReq(1)), Membership(1), Blank}

\* the batches: entries of the first term with the indexes 1, 2, ..
ApplyBatches ==
    {[i \in 1..Len(ps) |-> EntryNew([term |-> 1, index |-> i], ps[i])] :
        ps \in Batches(ApplyPayloads)}

\* the metas a leader sends with a snapshot
SnapshotMetas ==
    {[last_log_id |-> None, last_membership |-> StoredMembershipNew(None, 0),
      snapshot_id |-> 2],
     [last_log_id |-> Some([term |-> MaxTerm, index |-> MaxIndex]),
      last_membership |-> StoredMembershipNew(Some([term |-> 1, index |-> 1]), 2),
      snapshot_id |-> 2]}

\* the bytes it sends: snapshots of up to NumIds records without payload
InstallInputs ==
    {SerializeVec(rs) :
        rs \in UNION {[1..n -> {RecordNew(id, <<1, 0>>, <<>>, 1) : id \in Ids}]
                          : n \in 0..NumIds}}

\* The store as a state machine: batches applied, snapshots installed, a vote
\* saved.
NextApply ==
    \/ \E entries \in ApplyBatches : ApplyToStateMachine(entries)
    \/ \E meta \in SnapshotMetas, data \in InstallInputs :
          InstallSnapshot(meta, data, [i \in 1..NumIds |-> 0])
    \/ SaveVote(1)

SpecApply == Init /\ [][NextApply]_vars

----------------------------------------------------------------------------
(* index.rs: the three RwLocks of HnswIndex under calls from several        *)
(* threads.  A call takes its locks one after the other and holds them      *)
(* until it returns; the graph changes while the call holds them all.       *)
(* locks[t].step is the number of lock() calls thread t has come through.   *)

\* the lock() calls of each operation, in the order of the code
LockOrder(op) ==
    CASE op = "insert" -> <<[lock |-> "entry_point", mode |-> "write"],
                            [lock |-> "max_layer", mode |-> "write"],
                            [lock |-> "nodes", mode |-> "write"]>>
      [] op = "clear" -> <<[lock |-> "nodes", mode |-> "write"],
                           [lock |-> "entry_point", mode |-> "write"],
                           [lock |-> "max_layer", mode |-> "write"]>>
      [] op = "search" -> <<[lock |-> "nodes", mode |-> "read"],
                            [lock |-> "entry_point", mode |-> "read"],
                            [lock |-> "max_layer", mode |-> "read"]>>
      [] op = "remove" -> <<[lock |-> "nodes", mode |-> "write"]>>
      [] OTHER -> <<>>

\* the guards a thread holds: search drops the max_layer guard at the end of
\* the statement that took it
HeldBy(t) ==
    LET order == LockOrder(locks[t].op)
        n == IF locks[t].op = "search" THEN Min(locks[t].step, 2) ELSE locks[t].step
    IN  {order[i] : i \in 1..n}

\* the lock() call thread t is at, if any
Wanted(t) ==
    IF locks[t].step < Len(LockOrder(locks[t].op))
    THEN Some(LockOrder(locks[t].op)[locks[t].step + 1])
    ELSE None

\* the threads whose guards keep thread t's lock() call from returning
WaitsFor(t) ==
    IF Wanted(t) = None THEN {}
    ELSE {u \in Threads \ {t} :
             \E g \in HeldBy(u) :
                 /\ g.lock = Wanted(t)[1].lock
                 /\ (g.mode = "write" \/ Wanted(t)[1].mode = "write")}

lockaux == <<disk, dir, active_segment, index, bloom_filter, current_snapshot, log,
             inserted, disturbed, tomb, snapFresh, acked, ncompact, appended, bloomed,
             pc, conn, reader, raft>>

\* thread t calls an operation of the index
Call(t, op, id) ==
    /\ locks[t].op = "idle"
    /\ locks' = [locks EXCEPT ![t] = [op |-> op, step |-> 0, id |-> id]]
    /\ UNCHANGED <<vector_index, lockaux>>

\* the next lock() of thread t returns
Acquire(t) ==
    /\ Wanted(t) # None
    /\ WaitsFor(t) = {}
    /\ locks' = [locks EXCEPT ![t].step = @ + 1]
    /\ UNCHANGED <<vector_index, lockaux>>

\* search returns with two guards when there is no entry point or its node
\* is gone, the other calls with all of theirs
CanFinish(t) ==
    \/ locks[t].op # "idle" /\ Wanted(t) = None
    \/ /\ locks[t].op = "search" /\ locks[t].step = 2
       /\ IF vector_index.entry_point = None THEN TRUE
          ELSE vector_index.entry_point[1] \notin DOMAIN vector_index.nodes

\* the call of thread t does its work and returns, dropping its guards
Finish(t) ==
    /\ CanFinish(t)
    /\ vector_index' =
          CASE locks[t].op = "insert" ->
                   HnswInsert(vector_index, locks[t].id, <<1, 0>>, 0)
            [] locks[t].op = "clear" -> HnswClear(vector_index)
            [] locks[t].op = "remove" -> HnswRemove(vector_index, locks[t].id)
            [] OTHER -> vector_index
    /\ locks' = [locks EXCEPT ![t] = [op |-> "idle", step |-> 0, id |-> 0]]
    /\ UNCHANGED lockaux

\* The index under calls of insert, search, clear and remove from Threads.
NextLocks ==
    \/ \E t \in Threads, id \in Ids : Call(t, "insert", id)
    \/ \E t \in Threads : Call(t, "search", 0)
    \/ \E t \in Threads : Call(t, "clear", 0)
    \/ \E t \in Threads, id \in Ids : Call(t, "remove", id)
    \/ \E t \in Threads : Acquire(t)
    \/ \E t \in Threads : Finish(t)

SpecLocks == Init /\ [][NextLocks]_vars

(* index.rs: a graph that only grows: inserts of ids the graph does not     *)
(* hold, no remove and no clear.                                            *)

NextHnswGrow ==
    \E id \in HnswIds \ DOMAIN vector_index.nodes, v \in Vectors, l \in Levels :
        VectorInsert(id, v, l)

SpecHnswGrow == InitHnsw /\ [][NextHnswGrow]_vars

----------------------------------------------------------------------------

(* cluster/store.rs: the log under the calls Raft makes on a follower: the  *)
(* entries it appends continue the log (the first index is the one after    *)
(* get_log_state's last_log_id), and a leader's snapshot can be installed.  *)

\* entries whose indexes are first, first + 1, ..
Consecutive(entries, first) ==
    /\ entries # <<>>
    /\ \A i \in 1..Len(entries) : entries[i].log_id.index = first + i - 1

\* the index after the last one get_log_state reports
NextIndex ==
    LET last == get_log_state(log, raft).last_log_id
    IN  IF last = None THEN 1 ELSE last[1].index + 1

NextFollower ==
    \/ \E entries \in Batches(LogEntries) :
          Consecutive(entries, NextIndex) /\ StoreAppendToLog(entries)
    \/ \E l \in LogIds : DeleteConflictLogsSince(l)
    \/ \E l \in LogIds : PurgeLogsUpto(l)
    \/ \E meta \in SnapshotMetas :
          InstallSnapshot(meta, SerializeVec(<<>>), [i \in 1..NumIds |-> 0])

SpecFollower == Init /\ [][NextFollower]_vars

\* the entries of the first term that carry an insert without payload, or
\* nothing
WriteEntries ==
    {EntryNew([term |-> 1, index |-> i], p) :
        i \in 1..MaxIndex,
        p \in {Normal(InsertReq(id, <<1, 0>>, <<>>, 1)) : id \in Ids} \cup {Blank}}

\* Raft's core applies the entries after the last applied one, up to hi
ApplyCommitted(hi) ==
    LET lo == IF raft.applied = None THEN 1 ELSE raft.applied[1].index + 1
    IN  /\ lo <= hi
        /\ hi \in DOMAIN log
        /\ ApplyToStateMachine(try_get_log_entries(log, lo, hi))

\* The store on a node that appends entries, applies them later, and builds
\* snapshots in between.
NextBuild ==
    \/ \E entries \in Batches(WriteEntries) :
          Consecutive(entries, NextIndex) /\ StoreAppendToLog(entries)
    \/ \E hi \in 1..MaxIndex : ApplyCommitted(hi)
    \/ BuildSnapshot(1)

SpecBuild == Init /\ [][NextBuild]_vars

----------------------------------------------------------------------------

----------------------------------------------------------------------------
(* The properties.  A read is a set of possible outcomes; Res is the set of  *)
(* values it can return.                                                     *)

Res(outcomes) == {o.res : o \in outcomes}

Keys(records) == {records[i].key : i \in 1..Len(records)}
Range(s) == {s[i] : i \in 1..Len(s)}

\* C1: a key inserted n >= 1 times and never deleted, restored over or
\* compacted has get_history equal to the n inserted records in insertion
\* order and get_latest equal to the n-th, whatever inserts and reads of
\* this and other keys were interleaved.
C1_HistoryInOrder ==
    \A id \in Ids :
        (id \notin disturbed /\ inserted[id] # <<>>) =>
            /\ Res(get_history(CurDb, id)) = {inserted[id]}
            /\ Res(get_latest(CurDb, id)) = {Some(Last(inserted[id]))}

\* C2: after delete(id) all three reads of id find nothing, and the insert
\* that follows makes get_latest return the new record and get_history hold
\* exactly one record.
C2_DeleteThenInsert ==
    [][/\ \A id \in tomb' :
              /\ Res(get_latest(CurDb', id)) = {None}
              /\ \A t \in QueryTimes : Res(get_as_of(CurDb', id, t)) = {None}
              /\ Res(get_history(CurDb', id)) = {<<>>}
       /\ \A r \in Records, l \in Levels :
              (r.key \in tomb /\ Insert(r, l)) =>
                  /\ Res(get_latest(CurDb', r.key)) = {Some(r)}
                  /\ \A h \in Res(get_history(CurDb', r.key)) : Len(h) = 1]_vars

\* C3: for a key whose versions were inserted with strictly increasing
\* start times t1 < ... < tn, get_as_of(id, t) is version i for every t in
\* [ti, t(i+1)) and not found for every t < t1.
C3_AsOfByInterval ==
    \A id \in Ids :
        (/\ id \notin disturbed
         /\ inserted[id] # <<>>
         /\ \A i \in 1..(Len(inserted[id]) - 1) :
                inserted[id][i].start < inserted[id][i + 1].start) =>
            /\ \A t \in QueryTimes :
                   t < inserted[id][1].start =>
                       Res(get_as_of(CurDb, id, t)) = {None}
            /\ \A i \in 1..(Len(inserted[id]) - 1) : \A t \in QueryTimes :
                   (inserted[id][i].start <= t /\ t < inserted[id][i + 1].start) =>
                       Res(get_as_of(CurDb, id, t)) = {Some(inserted[id][i])}

\* C4: for a key whose latest version started at t0, get_as_of(id, t) is
\* that version for every timestamp t >= t0, the largest one included.
C4_AsOfLatestForever ==
    \A id \in Ids : \A r \in Records :
        Res(get_latest(CurDb, id)) = {Some(r)} =>
            \A t \in r.start..U64_MAX :
                Res(get_as_of(CurDb, id, t)) = {Some(r)}

\* C5: once the leader answered an INSERT, or an UPDATE of an existing id,
\* with "OK", a GET of that id on the same node, with no later write to the
\* id, answers found with exactly the written payload.
C5_ReadYourWrites ==
    \A id \in Ids :
        acked[id] # None =>
            \A o \in get_latest(CurDb, id) :
                o.res # None /\ o.res[1].payload = acked[id][1]

\* C6: search(query, k) returns at most k pairs, the k of smallest distance
\* among the nodes the layer-0 expansion visited, nearest first.
C6_SearchNearestFirst ==
    ~vector_index.poisoned =>
        \A query \in Vectors, k \in 0..MaxK :
            \A found \in HnswSearch(vector_index, query, k) :
                /\ Len(found) <= k
                /\ \E asc \in AscendingOrders(vector_index, query) :
                       found = [i \in 1..Len(Take(asc, k)) |->
                                   <<asc[i], distance(query, vector_index.nodes[asc[i]].vector)>>]

\* C7: restore(snapshot()) on the same store leaves get_latest(id) as it
\* was for every id that was present, and a second snapshot() describes the
\* same set of latest-version records.
C7_SnapshotRoundTrip ==
    [][(/\ snapFresh
        /\ \E levels \in [1..NumIds -> Levels] :
               /\ Restore(levels)
               /\ ~DbRestore(CurDb, current_snapshot, levels).panic) =>
           /\ \A id \in DOMAIN index :
                  Res(get_latest(CurDb', id)) = Res(get_latest(CurDb, id))
           /\ \A o \in snapshot(CurDb') :
                  Range(DeserializeVec(o.res)) = Range(DeserializeVec(current_snapshot))]_vars

\* C8: after restore(S) the index holds exactly the keys of S, each with one
\* version equal to S's record; the graph's nodes are those keys; the bloom
\* filter is the empty one with those keys inserted; and an id present
\* before but absent from S is not found by get_latest nor by search.
C8_RestoreRepresentsSnapshot ==
    [][(\E levels \in [1..NumIds -> Levels] :
            /\ Restore(levels)
            /\ ~DbRestore(CurDb, current_snapshot, levels).panic) =>
           LET S == DeserializeVec(current_snapshot) IN
           /\ DOMAIN index' = Keys(S)
           /\ \A i \in 1..Len(S) :
                  /\ Len(index'[S[i].key]) = 1
                  /\ Res(get_history(CurDb', S[i].key)) = {<<S[i]>>}
           /\ DOMAIN vector_index'.nodes = Keys(S)
           /\ bloom_filter' = UNION {BloomInsert(BloomNew, key) : key \in Keys(S)}
           /\ \A id \in (DOMAIN index) \ Keys(S) :
                  /\ Res(get_latest(CurDb', id)) = {None}
                  /\ \A query \in Vectors, k \in 0..MaxK :
                         \A found \in HnswSearch(vector_index', query, k) :
                             \A i \in 1..Len(found) : found[i][1] # id]_vars

\* C9: after compact(K) returned Ok, every id that had p offsets has exactly
\* min(p, K), reading them in order yields the records its last min(p, K)
\* offsets read before the call, in that order, and no other id appears or
\* disappears.
C9_CompactRetention ==
    [][(ncompact' = ncompact + 1) =>
           \A K \in 0..MaxK, run \in CompactRuns :
               \A c \in DbCompact(CurDb, K, run[1], run[2]) :
                   (c.ok /\ SetDb(c.db)) =>
                       /\ DOMAIN index' = DOMAIN index
                       /\ \A id \in DOMAIN index :
                              LET p == Len(index[id])
                                  m == Min(p, K)
                                  kept == SubSeq(index[id], p - m + 1, p)
                              IN  /\ Len(index'[id]) = m
                                  /\ \A h \in Res(get_history(CurDb', id)) : Len(h) = m
                                  /\ Res(get_history(CurDb', id))
                                         = Res(HistoryScan(CurDb, kept, 1, <<>>, 0))]_vars

\* C10: when compact returns an error, whichever step failed, the index and
\* the active segment are those of before the call, and every offset of the
\* index reads the record it read before.
C10_CompactErrorLeavesStore ==
    [][(ncompact' = ncompact + 1) =>
           \A K \in 0..MaxK, run \in CompactRuns :
               \A c \in DbCompact(CurDb, K, run[1], run[2]) :
                   (~c.ok /\ SetDb(c.db)) =>
                       /\ index' = index
                       /\ active_segment'.file_path = active_segment.file_path
                       /\ active_segment'.ino = active_segment.ino
                       /\ \A id \in DOMAIN index : \A i \in 1..Len(index[id]) :
                              Res(read_record(CurDb', index[id][i]))
                                  = Res(read_record(CurDb, index[id][i]))]_vars

\* C11: whatever appends, reads and re-opens came before, append(R) returns
\* the byte position its frame was written at, and read of that offset right
\* after returns exactly R.
C11_AppendReadRoundTrip ==
    [][\A r \in SmallRecords :
          SegAppend(r) =>
              /\ active_segment.current_offset = active_segment.pos
              /\ Res(SegmentRead(disk'[active_segment'.ino],
                                 active_segment.current_offset)) = {Some(r)}]_vars

\* C12: every record append ever returned an offset for reads back from that
\* offset unchanged, and a read leaves the position of the next append where
\* it was.
C12_AppendedImmutable ==
    [][/\ \A a \in appended' :
              Res(SegmentRead(disk'[active_segment'.ino], a[1])) = {Some(a[2])}
       /\ (\E o \in 0..MaxOffset : SegRead(o)) =>
              active_segment'.pos = active_segment.pos]_vars

\* C13: in every state of the store, the states between the steps of insert
\* and of restore and those after delete and compact included, every key of
\* the index tests positive in the bloom filter.
C13_IndexedKeysInBloom ==
    \A k \in DOMAIN index : BloomContains(bloom_filter, k)

\* C13 witness: between the index step and the graph step of an insert made
\* by restore, after a compaction, with the key in the index.
C13_Witness ==
    /\ pc.op = "insert" /\ pc.restoring /\ pc.step = "vector"
    /\ pc.record.key \in DOMAIN index
    /\ ncompact > 0
    /\ tomb # {}

\* C14: after any sequence of inserts, contains(x) is true for every key x
\* that was inserted.
C14_NoFalseNegative ==
    \A x \in bloomed : BloomContains(bloom_filter, x)

\* C14 witness: several keys are in, one of them with a sum that wrapped,
\* and the filter still tells some other key apart.
C14_Witness ==
    /\ Cardinality(bloomed) >= 2
    /\ \E x \in bloomed, i \in 0..(BLOOM_K - 1) :
           get_hash_pair(x)[1] + ((i * get_hash_pair(x)[2]) % Wrap) >= Wrap
    /\ \E y \in BloomKeys \ bloomed : ~BloomContains(bloom_filter, y)

\* C15: after any inserts and removes, search(query, k >= 1) does not fail,
\* returns a result that is not empty when a live node can be reached from
\* the entry point, and an empty one when no node is left.
C15_SearchTolerant ==
    \A query \in Vectors, k \in 1..MaxK :
        \A out \in VectorSearch(vector_index, query, k) :
            /\ ~out.panic
            /\ Visited(vector_index, query) # {} => out.found # <<>>
            /\ DOMAIN vector_index.nodes = {} => out.found = <<>>

\* C16: while search works, every id in a result is a node of the graph, no
\* id is in one result twice, and right after remove(id) no result holds id,
\* though other nodes still list it as a neighbor.
C16_ResultsAreLiveNodes ==
    /\ [](~vector_index.poisoned =>
            \A query \in Vectors, k \in 1..MaxK :
                \A found \in HnswSearch(vector_index, query, k) :
                    /\ \A i \in 1..Len(found) :
                          found[i][1] \in DOMAIN vector_index.nodes
                    /\ \A i, j \in 1..Len(found) : i # j => found[i][1] # found[j][1])
    /\ [][\A id \in HnswIds :
              VectorRemove(id) =>
                  \A query \in Vectors, k \in 1..MaxK :
                      \A found \in HnswSearch(vector_index', query, k) :
                          \A i \in 1..Len(found) : found[i][1] # id]_vars

\* C16 witness: among the nodes search visits one lists a removed id and one
\* lists a live id twice, and some result has two ids.
C16_Witness ==
    /\ ~vector_index.poisoned
    /\ \E query \in Vectors :
          /\ \E u \in Visited(vector_index, query) :
                LET c == vector_index.nodes[u].connections[1] IN
                \E i \in 1..Len(c) : c[i] \notin DOMAIN vector_index.nodes
          /\ \E u \in Visited(vector_index, query) :
                LET c == vector_index.nodes[u].connections[1] IN
                \E i, j \in 1..Len(c) :
                    i # j /\ c[i] = c[j] /\ c[i] \in DOMAIN vector_index.nodes
          /\ \E found \in HnswSearch(vector_index, query, MaxK) : Len(found) >= 2

\* C17: a committed Update of an id whose latest version is R appends one
\* version with R's vector, the new payload and the request's time: it is the
\* new get_latest(id), get_history(id) is the old history followed by it, and
\* the latest version and history of every other id are as before.
C17_UpdateAppendsVersion ==
    [][\A id \in Ids, p \in Payloads :
          (/\ HandleUpdate(id, p, 1, 0, TRUE)
           /\ \E R \in Records : Res(get_latest(CurDb, id)) = {Some(R)}
           /\ Cardinality(Res(get_history(CurDb, id))) = 1)
          => LET R == CHOOSE R \in Records : Res(get_latest(CurDb, id)) = {Some(R)}
                 H == CHOOSE H \in Res(get_history(CurDb, id)) : TRUE
                 N == RecordNew(id, R.vector, p, 1)
             IN  /\ Res(get_latest(CurDb', id)) = {Some(N)}
                 /\ Res(get_history(CurDb', id)) = {Append(H, N)}
                 /\ \A other \in Ids \ {id} :
                       /\ Res(get_latest(CurDb', other)) = Res(get_latest(CurDb, other))
                       /\ Res(get_history(CurDb', other)) = Res(get_history(CurDb, other))]_vars

\* C18: a committed Update of an id that has no version (never inserted, or
\* deleted) leaves the index, the files, the bloom filter and the graph as
\* they were, and is answered with success.
C18_UpdateOfMissingIsNoOp ==
    [][\A id \in Ids, p \in Payloads :
          (HandleUpdate(id, p, 1, 0, TRUE) /\ Offsets(CurDb, id) = <<>>)
          => /\ index' = index
             /\ disk' = disk
             /\ bloom_filter' = bloom_filter
             /\ vector_index' = vector_index
             /\ conn'.replies = <<OK>>]_vars

\* C18 witness: the last entry of the log is an Update, answered "OK", of an
\* id that was deleted before and has no index entry, next to an id that has.
C18_Witness ==
    /\ Len(log) >= 3
    /\ Last(log).op = "Update"
    /\ Last(log).id \notin DOMAIN index
    /\ \E i \in 1..(Len(log) - 1) : log[i] = DeleteReq(Last(log).id)
    /\ index # <<>>
    /\ conn = [open |-> TRUE, frame |-> <<Request("UPDATE")>>, replies |-> <<OK>>]

\* C19: every frame with one of the eight opcodes and a declared length
\* within the cap is answered by exactly one reply, of the shape documented
\* for its opcode.
C19_EveryFrameAnswered ==
    \A f \in Range(conn.frame) :
        (f.op \in Ops /\ ~f.oversize) =>
            /\ Len(conn.replies) = 1
            /\ conn.replies[1].tag \in
                   (CASE f.op \in {"INSERT", "DELETE", "UPDATE", "COMPACT"} -> {"OK", "ER"}
                      [] f.op \in {"GET", "GET_AS_OF"} -> {"get"}
                      [] f.op = "SEARCH" -> {"search"}
                      [] f.op = "HISTORY" -> {"history"})

\* C20: a frame that is a protocol error (a declared length over the cap,
\* an unknown opcode, a body its handler cannot parse) ends the connection,
\* and handling it changes neither the store nor the Raft log.
C20_ProtocolErrorDropsConnection ==
    /\ [](\A f \in Range(conn.frame) :
              (f.oversize \/ f.op \notin Ops \/ ~f.wellformed) => ~conn.open)
    /\ [][\A f \in Range(conn'.frame) :
              (f.oversize \/ f.op \notin Ops \/ ~f.wellformed) =>
                  UNCHANGED <<dbvars, log>>]_vars

\* C21: the payload of every INSERT or UPDATE that the server hands to
\* client_write is shorter than 64 KiB - 20 = 65516 bytes, and every INSERT
\* with a payload shorter than that is accepted.
C21_PayloadBound ==
    \A f \in Range(conn.frame) :
        /\ (f.wellformed /\ conn.replies = <<OK>>) => f.payload_len < 65536 - 20
        /\ (f.op = "INSERT" /\ f.length >= InsertHeaderLen
                /\ f.payload_len < 65536 - 20) => conn.open

\* what a client of one replica can see: the keys of the index, and the latest
\* version and the history of every id
Observe(d) ==
    [id \in Ids |-> [indexed |-> Offsets(d, id) # <<>>,
                     latest |-> Res(get_latest(d, id)),
                     history |-> Res(get_history(d, id))]]

\* the entries the next commit can carry
NextRequests ==
    {InsertReq(id, <<1, 0>>, p, 1) : id \in Ids, p \in Payloads}
        \cup {UpdateReq(id, p, 1) : id \in Ids, p \in Payloads}
        \cup {DeleteReq(id) : id \in Ids}

\* C22: a replica that served a local read and a replica that did not end
\* with the same index keys, latest versions and histories after applying the
\* same next committed entry: a read changes nothing a later write or read
\* observes.
C22_ReadsLeaveReplicationAlone ==
    [][(\E id \in Ids : HandleGet(id))
          => \A req \in NextRequests :
                {Observe(d) : d \in apply_to_state_machine(CurDb', req, 0)}
                    = {Observe(d) : d \in apply_to_state_machine(CurDb, req, 0)}]_vars

\* C23: with inserts and reads interleaved and no compaction, every offset a
\* reader finds in index[id] reads back as one complete record of that id,
\* and at the moment insert puts its offset into the index that offset reads
\* back as the record insert appended.
C23_IndexedOffsetReadable ==
    /\ [](\A id \in DOMAIN index : \A i \in 1..Len(index[id]) :
             \E r \in SmallRecords :
                 r.key = id /\ Res(read_record(CurDb, index[id][i])) = {Some(r)})
    /\ [][InsertIndex => Res(read_record(CurDb', pc.offset)) = {Some(pc.record)}]_vars

\* C24: a get_latest that compaction ran alongside returns what get_latest
\* returned before the compaction or what it returns after it.
C24_CompactStopsTheWorld ==
    [][(ReadFinish /\ reader.epoch # ncompact)
          => reader'.res \in reader.before \cup Res(get_latest(CurDb, reader.id))]_vars

\* a bloom filter built from empty with exactly these keys
BloomOf(keys) == UNION ({BloomNew} \cup {BloomInsert(BloomNew, k) : k \in keys})

\* the ids the nodes of a graph list as neighbors, on any layer
NeighborIds(h) ==
    UNION {UNION {Range(h.nodes[n].connections[l]) :
                      l \in 1..Len(h.nodes[n].connections)} : n \in DOMAIN h.nodes}

\* C25: after compact returned Ok, the bloom filter holds exactly the bits of
\* the keys that remain in the index, and the graph has a node for exactly
\* those keys and no neighbor id without a node.
C25_CompactRebuildsFilterAndGraph ==
    [][(ncompact' = ncompact + 1) =>
           \A K \in 0..MaxK, run \in CompactRuns :
               \A c \in DbCompact(CurDb, K, run[1], run[2]) :
                   (c.ok /\ SetDb(c.db)) =>
                       /\ bloom_filter' = BloomOf(DOMAIN index')
                       /\ DOMAIN vector_index'.nodes = DOMAIN index'
                       /\ NeighborIds(vector_index') \subseteq DOMAIN vector_index'.nodes]_vars

\* the order of Option<LogId>: None first, then by term, then by index
LogIdLeq(a, b) ==
    \/ a = None
    \/ /\ b # None
       /\ \/ a[1].term < b[1].term
          \/ a[1].term = b[1].term /\ a[1].index <= b[1].index

\* C27: build_snapshot caches and returns a snapshot whose last_log_id is the
\* last_log_id get_log_state reports (the purged id when the log is empty)
\* and whose last_membership is the stored membership, and the last_log_id of
\* a snapshot is never below that of the snapshot built before it.
C27_SnapshotMeta ==
    [][BuildSnapshot(1) =>
          LET s == get_current_snapshot(raft')[1] IN
          /\ s.meta.last_log_id = get_log_state(log, raft).last_log_id
          /\ s.meta.last_membership = raft.stored_membership
          /\ get_current_snapshot(raft) # None =>
                 LogIdLeq(get_current_snapshot(raft)[1].meta.last_log_id,
                          s.meta.last_log_id)]_vars

\* C29: delete_conflict_logs_since(L) removes exactly the entries with index
\* >= L.index and purge_logs_upto(L) exactly those with index <= L.index, the
\* latter recording L as the last purged id; the other entries, the vote, the
\* membership, the snapshot and the database stay as they were, and
\* try_get_log_entries returns the surviving entries of its range by
\* ascending index.
C29_LogRemovalExact ==
    /\ [](\A lo, hi \in 0..(MaxIndex + 1) :
             LET r == try_get_log_entries(log, lo, hi) IN
             /\ \A i, j \in 1..Len(r) : i < j => r[i].log_id.index < r[j].log_id.index
             /\ Range(r) = {log[k] : k \in {k \in DOMAIN log : lo <= k /\ k <= hi}})
    /\ [][\A L \in LogIds :
             /\ DeleteConflictLogsSince(L) =>
                    /\ DOMAIN log' = {k \in DOMAIN log : ~(k >= L.index)}
                    /\ \A k \in DOMAIN log' : log'[k] = log[k]
                    /\ raft' = raft
                    /\ CurDb' = CurDb
             /\ PurgeLogsUpto(L) =>
                    /\ DOMAIN log' = {k \in DOMAIN log : ~(k <= L.index)}
                    /\ \A k \in DOMAIN log' : log'[k] = log[k]
                    /\ raft' = [raft EXCEPT !.last_purged_log_id = Some(L)]
                    /\ CurDb' = CurDb]_vars

\* C29 witness: a purge up to index 1 was recorded, the entry at index 2
\* survives it alone, and a vote and a membership are stored.
C29_Witness ==
    /\ raft.last_purged_log_id # None
    /\ raft.last_purged_log_id[1].index = 1
    /\ DOMAIN log = {2}
    /\ raft.vote # None
    /\ raft.stored_membership.log_id # None
    /\ raft.current_snapshot # None

\* the stores a batch leaves when its requests are applied one after the
\* other, each to the store the one before it left
RECURSIVE StoresAfter(_, _)
StoresAfter(D, entries) ==
    IF entries = <<>> THEN D
    ELSE StoresAfter(UNION {IF entries[1].payload.kind = "Normal"
                            THEN apply_to_state_machine(d, entries[1].payload.req, 0)
                            ELSE {d} : d \in D},
                     Tail(entries))

\* the message of the response to an entry
MessageFor(entry) ==
    CASE entry.payload.kind = "Normal" -> "OK"
      [] entry.payload.kind = "Membership" -> "Membership Change"
      [] OTHER -> "Heartbeat"

\* C26: apply_to_state_machine applies a batch in the given order, each entry
\* to the store the entry before it left, and returns one response per entry
\* in that order, every one with success = true.
C26_ApplyInOrderAllSuccess ==
    [][\A entries \in ApplyBatches :
          ApplyToStateMachine(entries) =>
              /\ Len(raft'.responses) = Len(entries)
              /\ \A i \in 1..Len(entries) :
                    /\ raft'.responses[i].success
                    /\ raft'.responses[i].message = MessageFor(entries[i])
              /\ \E d \in StoresAfter({CurDb}, entries) : SetDb(d)]_vars

\* C26 witness: a batch of an insert and a membership change was applied: two
\* responses in that order, the record in the index, the membership stored
\* with the log id of the second entry.
C26_Witness ==
    /\ raft.responses = <<Response("OK"), Response("Membership Change")>>
    /\ DOMAIN index # {}
    /\ raft.stored_membership = StoredMembershipNew(Some([term |-> 1, index |-> 2]), 1)

\* C28: when install_snapshot(meta, bytes) returns Ok, the database is what
\* restore(bytes) made of it, stored_membership is meta.last_membership,
\* last_purged_log_id is meta.last_log_id, get_current_snapshot returns meta
\* with the bytes, and the vote is the one of before.
C28_InstallSnapshot ==
    [][\A meta \in SnapshotMetas, data \in InstallInputs :
          LET levels == [i \in 1..NumIds |-> 0]
              r == DbRestore(CurDb, data, levels)
          IN  (InstallSnapshot(meta, data, levels) /\ ~r.panic) =>
                  /\ SetDb(r.db)
                  /\ raft'.stored_membership = meta.last_membership
                  /\ raft'.last_purged_log_id = meta.last_log_id
                  /\ get_current_snapshot(raft') = Some([meta |-> meta, data |-> data])
                  /\ read_vote(raft') = read_vote(raft)]_vars

\* C28 witness: a snapshot of two records was installed in a store that had a
\* vote: its meta and bytes are cached, its log id is the purged one, the
\* records are in the index.
C28_Witness ==
    /\ raft.current_snapshot # None
    /\ raft.current_snapshot[1].meta.snapshot_id = 2
    /\ Len(raft.current_snapshot[1].data) > 0
    /\ raft.last_purged_log_id = Some([term |-> MaxTerm, index |-> MaxIndex])
    /\ raft.stored_membership.membership = 2
    /\ raft.vote # None
    /\ DOMAIN index = Ids

\* C30: whatever calls of insert, search and clear run in different threads,
\* no set of threads is left with each one waiting for a lock another one of
\* the set holds: every call can still return.
C30_NoDeadlock ==
    \A D \in SUBSET Threads :
        D # {} => \E t \in D : WaitsFor(t) \cap D = {}

\* C31: when an insert that compact ran alongside has returned Ok and the
\* index holds offsets for its id (the compaction kept versions), get_latest
\* of the id returns the inserted record: the last offset of the id reads
\* back as that record in the segment now active.
C31_InsertSurvivesCompaction ==
    [][(/\ InsertVector
        /\ ~pc.restoring
        /\ pc.epoch # ncompact
        /\ pc' = Idle
        /\ ~vector_index'.poisoned
        /\ Offsets(CurDb', pc.record.key) # <<>>)
          => Res(get_latest(CurDb', pc.record.key)) = {Some(pc.record)}]_vars

\* C32: in a graph built by inserts of distinct ids alone, search(v, k) with
\* k the number of nodes returns every inserted id, for every query v.
C32_EveryInsertedIdFound ==
    ~vector_index.poisoned =>
        \A query \in Vectors :
            \A found \in HnswSearch(vector_index, query,
                                    Cardinality(DOMAIN vector_index.nodes)) :
                {found[i][1] : i \in 1..Len(found)} = DOMAIN vector_index.nodes

\* C33: in every state reached by insert, remove and clear from an empty
\* graph, no node lists more than m_max neighbor ids on any layer, and
\* max_layer is at least the top layer of every node; an insert with sampled
\* level L leaves its node with exactly L + 1 adjacency layers.
C33_GraphShape ==
    /\ [](\A id \in DOMAIN vector_index.nodes :
            LET c == vector_index.nodes[id].connections IN
            /\ \A l \in 1..Len(c) : Len(c[l]) <= vector_index.m_max
            /\ Len(c) - 1 <= vector_index.max_layer)
    /\ [][\A id \in HnswIds, v \in Vectors, l \in Levels :
              (VectorInsert(id, v, l) /\ ~vector_index'.poisoned)
                  => Len(vector_index'.nodes[id].connections) = l + 1]_vars

\* C33 witness: a two-layer node is in the graph, and a node whose layer 0
\* is full is listed by a node it does not list back (the cap dropped it).
C33_Witness ==
    /\ ~vector_index.poisoned
    /\ \E id \in DOMAIN vector_index.nodes :
          Len(vector_index.nodes[id].connections) = 2
    /\ \E p, n \in DOMAIN vector_index.nodes :
          LET cp == vector_index.nodes[p].connections[1]
              cn == vector_index.nodes[n].connections[1]
          IN  /\ p # n
              /\ Len(cp) = vector_index.m_max
              /\ \E i \in 1..Len(cn) : cn[i] = p
              /\ \A i \in 1..Len(cp) : cp[i] # n

\* C34: in every state of the store, every record that get_latest(id),
\* get_as_of(id, t) or get_history(id) can return has key id (the first half
\* of the claim: a record inserted for id has key id).
C34_ReadsReturnOwnKey ==
    \A id \in Ids :
        /\ \A res \in Res(get_latest(CurDb, id)) : res # None => res[1].key = id
        /\ \A t \in QueryTimes :
               \A res \in Res(get_as_of(CurDb, id, t)) : res # None => res[1].key = id
        /\ \A res \in Res(get_history(CurDb, id)) : Keys(res) \subseteq {id}

\* C35: after compact returned Ok with the compacted segment reopened at the
\* canonical path, the next insert leaves every offset of the index reading
\* the record it read before, and the offset it records reads the new record.
C35_InsertAfterCompactKeepsRetained ==
    [][(ncompact' = ncompact + 1) =>
           \A K \in 0..MaxK :
               \A c \in DbCompact(CurDb, K, "none", 0) :
                   (c.ok /\ SetDb(c.db) /\ active_segment'.file_path = WalPath) =>
                       \A r \in SmallRecords :
                           Fits(CurDb', Len(Frame(r))) =>
                               LET after == DbInsert(CurDb', r, 0).db IN
                               /\ \A id \in DOMAIN index' : \A i \in 1..Len(index'[id]) :
                                      Res(read_record(after, index'[id][i]))
                                          = Res(read_record(CurDb', index'[id][i]))
                               /\ Res(read_record(after, Last(Offsets(after, r.key))))
                                      = {Some(r)}]_vars

\* C36: in every state of the store, after compact(K) for every K, 0
\* included, every key of the index maps to a non-empty list of offsets.
C36_IndexedKeysHaveOffsets ==
    \A id \in DOMAIN index : index[id] # <<>>

\* C37: in every state of the log store, every entry left in the log has an
\* index above that of last_purged_log_id, and get_log_state reports no
\* last_log_id whose index is below it.
C37_LogAbovePurged ==
    raft.last_purged_log_id # None =>
        /\ \A k \in DOMAIN log : k > raft.last_purged_log_id[1].index
        /\ LET last == get_log_state(log, raft).last_log_id
           IN  last # None /\ last[1].index >= raft.last_purged_log_id[1].index

\* C39: after apply_to_state_machine has applied a batch whose last entry has
\* log id L, and after install_snapshot has installed a snapshot whose
\* last_log_id is L, last_applied_state returns L as the last applied log id,
\* with the stored membership.
C39_LastAppliedReported ==
    [][/\ \A entries \in ApplyBatches :
              (entries # <<>> /\ ApplyToStateMachine(entries)) =>
                  last_applied_state(raft')
                      = <<Some(entries[Len(entries)].log_id), raft'.stored_membership>>
       /\ \A meta \in SnapshotMetas, data \in InstallInputs :
              LET levels == [i \in 1..NumIds |-> 0] IN
              (/\ meta.last_log_id # None
               /\ InstallSnapshot(meta, data, levels)
               /\ ~DbRestore(CurDb, data, levels).panic) =>
                  last_applied_state(raft')
                      = <<meta.last_log_id, raft'.stored_membership>>]_vars

\* C38: the bytes build_snapshot produces hold the latest versions that
\* result from applying exactly the log entries with index up to
\* meta.last_log_id.index: here the record of every insert among them.
C38_SnapshotMatchesMeta ==
    [][BuildSnapshot(1) =>
           LET snap == raft'.current_snapshot[1]
               upto == snap.meta.last_log_id[1].index
               writes == {k \in DOMAIN log : k <= upto /\ log[k].payload.kind = "Normal"}
           IN  Range(DeserializeVec(snap.data))
                   = {RecordNew(log[k].payload.req.id, log[k].payload.req.vector,
                                log[k].payload.req.payload, log[k].payload.req.ts)
                          : k \in writes}]_vars

====
